---- MODULE Spec2Model ----
(***************************************************************************)
(* File scanner: upload handler (app/api.py), durable job table            *)
(* (app/database.py), Redis caches (app/cache.py), Redis stream            *)
(* (app/queue.py) and the scanner worker (scripts/worker_simulator.py).    *)
(*                                                                         *)
(* Every await of a handler that touches the store, the cache or the       *)
(* stream is one step, so that handlers interleave exactly where the       *)
(* event loop and the separate worker processes let them interleave.       *)
(***************************************************************************)
EXTENDS Integers, Sequences, FiniteSets, TLC

\* ---------------------------------------------------------------- bounds
\* Number of job ids (uploads that reach create_job) in one behaviour.
MaxJobs == 2
\* Number of failing Redis/Postgres/stream calls in one behaviour.
MaxFaults == 1
\* Number of ticks of the clock in one behaviour.
MaxTime == 5

Uploaders == {"u1"}
\* The request slots of upload_file; the storage path runs two requests at once.
Requests == {"u1", "u2"}
Readers == {"r1"}
Workers == {"w1", "w2"}

\* The worker whose transitions the status path interleaves with.
StatusWorkers == {"w1"}

\* Uploaded contents and the bytes they hold.
Contents == {"c1", "c2"}

FileBytes(c) == IF c = "c1" THEN <<"A", "b", "1">> ELSE <<"b", "B">>

\* hashlib.sha256: an injective map from contents to fingerprints.
Sha256(c) == IF c = "c1" THEN "h1" ELSE "h2"

Hashes == {Sha256(c) : c \in Contents}

\* The digest of a byte sequence that is no uploaded content.
OtherDigest == "h0"

\* hashlib.sha256 over bytes: the fingerprint of the content that has exactly these
\* bytes, and a digest that names no content for any other bytes.
DigestOf(bytes) ==
    IF \E c \in Contents : FileBytes(c) = bytes
    THEN Sha256(CHOOSE c \in Contents : FileBytes(c) = bytes)
    ELSE OtherDigest

\* StorageService.chunk_size, scaled to the model's contents.
ChunkSize == 2

\* The temporary path temp_{uuid4}_{filename} of the save a request runs.
TempPath(u) == IF u = "u1" THEN "temp_1" ELSE "temp_2"

\* The temporary paths at the storage root.
TempPaths == {TempPath(u) : u \in Requests}

\* The histogram's buckets, in key order (A-Z in the code).
Letters == <<"A", "B">>

JobIds == 1..MaxJobs

\* A job id no upload ever generated.
UnknownId == 0

\* The job ids status queries ask for.
QueryIds == {UnknownId, 1}

\* SQL NULL / Python None of the results and error_message columns.
NoResults == <<>>

NoError == "null"

\* ------------------------------------------------------------ the scan
\* str.upper() on the characters of the model alphabet.
Upper(ch) == IF ch = "a" THEN "A" ELSE IF ch = "b" THEN "B" ELSE ch

RECURSIVE CountLetter(_, _)
CountLetter(bytes, letter) ==
    IF bytes = <<>> THEN 0
    ELSE (IF Upper(Head(bytes)) = letter THEN 1 ELSE 0)
         + CountLetter(Tail(bytes), letter)

\* WorkerSimulator.scan_file: one count per letter, case-folded, non-letters ignored.
scan_file(bytes) == [i \in 1..Len(Letters) |-> CountLetter(bytes, Letters[i])]

\* ------------------------------------------------------------ the state
\* ---------------------------------------------------------------- settings
\* config.py: the storage tiers, in percent of the disk used.
storage_warning_threshold == 85
storage_critical_threshold == 90
storage_emergency_threshold == 95
\* config.py: retention of job rows, age of an orphaned temporary file, and the
\* longest a save may take.
file_retention_days == 7
cleanup_orphaned_files_hours == 1
upload_timeout_seconds == 300

\* Durations in seconds.
Hours(n) == 3600 * n
Days(n) == 24 * Hours(n)

\* The clock of the model is coarse: it ticks at 0 < 12 hours < 1 day < 3 days <
\* 7 days, and a duration is the number of ticks that cover it. The conversion
\* keeps the order of the durations the code compares.
Ticks(seconds) ==
    IF seconds <= 0 THEN 0
    ELSE IF seconds <= Hours(12) THEN 1
    ELSE IF seconds <= Days(1) THEN 2
    ELSE IF seconds <= Days(3) THEN 3
    ELSE 4

VARIABLES
    jobs,          \* the jobs table: job id -> row
    nextJobId,     \* the next fresh uuid4
    statusCache,   \* Redis keys job:{id}:status
    fileCache,     \* Redis keys file:{hash}:results
    stream,        \* the Redis stream scan_jobs (append-only)
    lastDelivered, \* the consumer group's last-delivered position
    pel,           \* the group's pending entries list (delivered, not acked)
    files,         \* canonical content locations: fingerprint -> bytes
    up,            \* upload_file requests in flight
    rd,            \* get_job_status requests in flight
    wk,            \* worker processes
    responses,     \* upload responses, in the order they were returned
    faults,        \* failing dependency calls so far
    now,           \* the clock: NOW() of the database, time.time() of the host
    cl             \* the periodic cleanup task's current cycle

vars == <<jobs, nextJobId, statusCache, fileCache, stream, lastDelivered, pel,
          files, up, rd, wk, responses, faults, now, cl>>

\* Python truthiness of a results dict: None and {} are falsy.
HasResults(results) == results # NoResults

\* A row of the jobs table as INSERT ... RETURNING gives it.
\* created_at is DEFAULT NOW().
JobRow(file_hash, status, results) ==
    [file_hash |-> file_hash, status |-> status, results |-> results,
     error_message |-> NoError, created_at |-> now]

\* The column expires_at of a row: create_job writes it once, as the retention
\* period after the creation (database.py 70), and no statement updates it.
expires_at(row) == row.created_at + Ticks(Days(file_retention_days))

\* The fields of a row that the status cache and the status response carry.
CacheData(row) ==
    [status |-> row.status, results |-> row.results,
     error_message |-> row.error_message]

NoData == [status |-> "none", results |-> NoResults, error_message |-> NoError]

\* The outcome of should_accept_upload for a request that has not asked yet.
NoAdmission == [status |-> "none"]

\* The cleanup task between two cycles. ran is the trace of the last cycle,
\* removed the temporary files its orphan pass unlinked, deleted_jobs the
\* fingerprints of the rows delete_expired_jobs returned, and old_hashes the
\* result of get_old_file_hashes.
IdleCleanup ==
    [pc |-> "sleep", status |-> "none", ran |-> <<>>, removed |-> {},
     deleted_jobs |-> {}, old_hashes |-> {}]

\* A request slot of upload_file with no request in it. cached and existing are the
\* handler's locals cached_results["results"] and existing_job["results"].
IdleUpload ==
    [pc |-> "idle", file_hash |-> "none", cached |-> NoResults,
     existing |-> NoResults, job_id |-> 0, ops |-> <<>>, started |-> 0,
     content |-> "none", written |-> 0, save |-> "none", opened |-> 0,
     mtime |-> 0, admission |-> NoAdmission]

IdleReader ==
    [pc |-> "idle", job_id |-> 0, data |-> NoData,
     resp |-> [kind |-> "none", source |-> "none", data |-> NoData, job_id |-> 0]]

IdleWorker ==
    [pc |-> "poll", msg |-> 0, phase |-> "none", results |-> NoResults,
     error |-> NoError]

\* A table, key space or directory tree with nothing in it.
Empty == [x \in {} |-> NoData]

Init ==
    /\ jobs = Empty
    /\ nextJobId = 1
    /\ statusCache = Empty
    /\ fileCache = Empty
    /\ stream = <<>>
    /\ lastDelivered = 0
    /\ pel = {}
    /\ files = Empty
    /\ up = [u \in Requests |-> IdleUpload]
    /\ rd = [r \in Readers |-> IdleReader]
    /\ wk = [w \in Workers |-> IdleWorker]
    /\ responses = <<>>
    /\ faults = 0
    /\ now = 0
    /\ cl = IdleCleanup

\* A dependency call may fail only while the fault budget lasts.
CanFail == faults < MaxFaults

\* Function f with key k set to v (Redis SETEX, SQL INSERT).
Put(f, k, v) == [x \in DOMAIN f \cup {k} |-> IF x = k THEN v ELSE f[x]]

\* Function f without key k (Redis DEL, TTL expiry).
Drop(f, k) == [x \in DOMAIN f \ {k} |-> f[x]]

\* ------------------------------------------------------- upload_file
\* The request's log of dependency calls, in call order.
Called(req, op) == [req EXCEPT !.ops = Append(@, op)]

\* The response of upload_file (FileUploadResponse, or the HTTP 500 of the handler),
\* with the request's locals cached_results and existing_job as they were on return.
UploadResponse(req, status, results, dedup) ==
    [job_id |-> req.job_id, file_hash |-> req.file_hash, status |-> status,
     results |-> results, deduplication |-> dedup, cached |-> req.cached,
     existing |-> req.existing, ops |-> req.ops, started |-> req.started,
     admission |-> req.admission]

\* CacheService.get_file_results: the results of the entry, None when there is none.
get_file_results(file_hash) ==
    IF file_hash \in DOMAIN fileCache THEN fileCache[file_hash] ELSE NoResults

\* Database.get_completed_job_by_hash: the Completed rows of the fingerprint. The
\* query returns the first of them by completed_at DESC (NULLs first, ties in any
\* order); the rows are kept as a set and the caller takes any of them.
get_completed_job_by_hash(file_hash) ==
    {id \in DOMAIN jobs :
        jobs[id].file_hash = file_hash /\ jobs[id].status = "completed"}

\* Mutant of AfterCacheLookup: the cached results are kept but the request falls
\* through to the durable lookup.
AfterCacheLookupFallsThrough(req, cached) ==
    [req EXCEPT !.pc = "db_lookup", !.cached = cached]

\* api.py 114-116: with cached results the request creates the Completed job at
\* once; without them it goes on to the durable lookup.
AfterCacheLookup(req, cached) ==
    IF HasResults(cached)
    THEN [req EXCEPT !.pc = "create_cached", !.cached = cached]
    ELSE [req EXCEPT !.pc = "db_lookup"]

\* Mutant of AfterDbLookup: the durable hit is not used, every request that missed
\* the cache creates a Pending job.
AfterDbLookupIgnoresHit(req, existing) == [req EXCEPT !.pc = "create_pending"]

\* api.py 134-136, 160: with a Completed row that has results the request backfills
\* the cache; without one it creates a Pending job.
AfterDbLookup(req, existing) ==
    IF HasResults(existing)
    THEN [req EXCEPT !.pc = "backfill", !.existing = existing]
    ELSE [req EXCEPT !.pc = "create_pending"]

\* api.py 109: the content is hashed and stored, and the request goes on to the
\* fingerprint cache lookup. A fresh job id must remain for the request.
UploadStart(u, c) ==
    /\ up[u].pc = "idle"
    /\ nextJobId + Cardinality({v \in Uploaders : up[v].pc # "idle"}) <= MaxJobs
    /\ files' = IF Sha256(c) \in DOMAIN files THEN files
                ELSE Put(files, Sha256(c), FileBytes(c))
    /\ up' = [up EXCEPT ![u] = [IdleUpload EXCEPT !.pc = "cache_lookup",
                                    !.file_hash = Sha256(c),
                                    !.started = Len(responses)]]
    /\ UNCHANGED <<jobs, nextJobId, statusCache, fileCache, stream, lastDelivered,
                   pel, rd, wk, responses, faults, now, cl>>

\* api.py 114-115: cache.get_file_results and the truthiness test on its results.
UploadCacheLookup(u) ==
    /\ up[u].pc = "cache_lookup"
    /\ up' = [up EXCEPT ![u] =
                AfterCacheLookup(Called(up[u], "get_file_results"),
                                 get_file_results(up[u].file_hash))]
    /\ UNCHANGED <<jobs, nextJobId, statusCache, fileCache, stream, lastDelivered,
                   pel, files, rd, wk, responses, faults, now, cl>>

\* A failing Redis GET that is not caught: the request ends with HTTP 500.
UploadCacheLookupFailRaises(u) ==
    /\ up[u].pc = "cache_lookup"
    /\ CanFail
    /\ faults' = faults + 1
    /\ responses' = Append(responses,
          UploadResponse(Called(up[u], "get_file_results_failed"), "error",
                         NoResults, FALSE))
    /\ up' = [up EXCEPT ![u] = IdleUpload]
    /\ UNCHANGED <<jobs, nextJobId, statusCache, fileCache, stream, lastDelivered,
                   pel, files, rd, wk, now, cl>>

\* cache.py 130-132: a failing Redis GET is logged and read as a miss.
UploadCacheLookupFail(u) ==
    /\ up[u].pc = "cache_lookup"
    /\ CanFail
    /\ faults' = faults + 1
    /\ up' = [up EXCEPT ![u] =
                AfterCacheLookup(Called(up[u], "get_file_results_failed"), NoResults)]
    /\ UNCHANGED <<jobs, nextJobId, statusCache, fileCache, stream, lastDelivered,
                   pel, files, rd, wk, responses, now, cl>>

\* Mutant of UploadCreateCached: the cache hit answers with the id of a Completed
\* job the store already has for the fingerprint and creates no job of its own.
UploadCreateCachedReusesJob(u) ==
    /\ up[u].pc = "create_cached"
    /\ \E id \in get_completed_job_by_hash(up[u].file_hash) :
          responses' = Append(responses,
              UploadResponse([Called(up[u], "create_job") EXCEPT !.job_id = id],
                             "completed", up[u].cached, TRUE))
    /\ up' = [up EXCEPT ![u] = IdleUpload]
    /\ UNCHANGED <<jobs, nextJobId, statusCache, fileCache, stream, lastDelivered,
                   pel, files, rd, wk, faults, now, cl>>

\* api.py 116-132: the cache hit creates a Completed job and returns it.
UploadCreateCached(u) ==
    /\ up[u].pc = "create_cached"
    /\ LET req == [Called(up[u], "create_job") EXCEPT !.job_id = nextJobId]
       IN  /\ jobs' = Put(jobs, nextJobId,
                          JobRow(req.file_hash, "completed", req.cached))
           /\ responses' = Append(responses,
                  UploadResponse(req, "completed", req.cached, TRUE))
    /\ nextJobId' = nextJobId + 1
    /\ up' = [up EXCEPT ![u] = IdleUpload]
    /\ UNCHANGED <<statusCache, fileCache, stream, lastDelivered, pel, files, rd,
                   wk, faults, now, cl>>

\* api.py 134-135: the durable lookup of a Completed job of the fingerprint.
UploadDbLookup(u) ==
    /\ up[u].pc = "db_lookup"
    /\ LET req == Called(up[u], "get_completed_job_by_hash")
           rows == get_completed_job_by_hash(req.file_hash)
       IN  \/ /\ rows = {}
              /\ up' = [up EXCEPT ![u] = AfterDbLookup(req, NoResults)]
           \/ \E id \in rows :
                up' = [up EXCEPT ![u] = AfterDbLookup(req, jobs[id].results)]
    /\ UNCHANGED <<jobs, nextJobId, statusCache, fileCache, stream, lastDelivered,
                   pel, files, rd, wk, responses, faults, now, cl>>

\* Mutant of UploadBackfill: the request goes on to create the job without writing
\* the stored results into the fingerprint cache.
UploadBackfillSkipsCache(u) ==
    /\ up[u].pc = "backfill"
    /\ up' = [up EXCEPT ![u] =
                [Called(up[u], "set_file_results") EXCEPT !.pc = "create_dedup"]]
    /\ UNCHANGED <<jobs, nextJobId, statusCache, fileCache, stream, lastDelivered,
                   pel, files, rd, wk, responses, faults, now, cl>>

\* api.py 136-140: cache.set_file_results with the stored job's results.
UploadBackfill(u) ==
    /\ up[u].pc = "backfill"
    /\ fileCache' = Put(fileCache, up[u].file_hash, up[u].existing)
    /\ up' = [up EXCEPT ![u] =
                [Called(up[u], "set_file_results") EXCEPT !.pc = "create_dedup"]]
    /\ UNCHANGED <<jobs, nextJobId, statusCache, stream, lastDelivered, pel, files,
                   rd, wk, responses, faults, now, cl>>

\* cache.py 116-117: a failing SETEX is logged and ignored.
UploadBackfillFail(u) ==
    /\ up[u].pc = "backfill"
    /\ CanFail
    /\ faults' = faults + 1
    /\ up' = [up EXCEPT ![u] =
                [Called(up[u], "set_file_results_failed") EXCEPT !.pc = "create_dedup"]]
    /\ UNCHANGED <<jobs, nextJobId, statusCache, fileCache, stream, lastDelivered,
                   pel, files, rd, wk, responses, now, cl>>

\* api.py 142-158: the durable hit creates a Completed job and returns it.
UploadCreateDedup(u) ==
    /\ up[u].pc = "create_dedup"
    /\ LET req == [Called(up[u], "create_job") EXCEPT !.job_id = nextJobId]
       IN  /\ jobs' = Put(jobs, nextJobId,
                          JobRow(req.file_hash, "completed", req.existing))
           /\ responses' = Append(responses,
                  UploadResponse(req, "completed", req.existing, TRUE))
    /\ nextJobId' = nextJobId + 1
    /\ up' = [up EXCEPT ![u] = IdleUpload]
    /\ UNCHANGED <<statusCache, fileCache, stream, lastDelivered, pel, files, rd,
                   wk, faults, now, cl>>

\* Mutant of UploadCreatePending: the request takes its job id and goes on to
\* publish before the job row is inserted.
UploadCreatePendingWithoutRow(u) ==
    /\ up[u].pc = "create_pending"
    /\ nextJobId' = nextJobId + 1
    /\ up' = [up EXCEPT ![u] =
                [Called(up[u], "create_job") EXCEPT !.pc = "publish",
                                                    !.job_id = nextJobId]]
    /\ UNCHANGED <<jobs, statusCache, fileCache, stream, lastDelivered, pel, files,
                   rd, wk, responses, faults, now, cl>>

\* api.py 160-167: no completed results anywhere: a Pending job is created.
UploadCreatePending(u) ==
    /\ up[u].pc = "create_pending"
    /\ jobs' = Put(jobs, nextJobId, JobRow(up[u].file_hash, "pending", NoResults))
    /\ nextJobId' = nextJobId + 1
    /\ up' = [up EXCEPT ![u] =
                [Called(up[u], "create_job") EXCEPT !.pc = "cache_job",
                                                    !.job_id = nextJobId]]
    /\ UNCHANGED <<statusCache, fileCache, stream, lastDelivered, pel, files, rd,
                   wk, responses, faults, now, cl>>

\* api.py 169: cache.set_job_status with the row create_job returned.
UploadCacheJob(u) ==
    /\ up[u].pc = "cache_job"
    /\ statusCache' = Put(statusCache, up[u].job_id,
                          CacheData(JobRow(up[u].file_hash, "pending", NoResults)))
    /\ up' = [up EXCEPT ![u] =
                [Called(up[u], "set_job_status") EXCEPT !.pc = "publish"]]
    /\ UNCHANGED <<jobs, nextJobId, fileCache, stream, lastDelivered, pel, files,
                   rd, wk, responses, faults, now, cl>>

\* cache.py 73-74: a failing SETEX is logged and ignored.
UploadCacheJobFail(u) ==
    /\ up[u].pc = "cache_job"
    /\ CanFail
    /\ faults' = faults + 1
    /\ up' = [up EXCEPT ![u] =
                [Called(up[u], "set_job_status_failed") EXCEPT !.pc = "publish"]]
    /\ UNCHANGED <<jobs, nextJobId, statusCache, fileCache, stream, lastDelivered,
                   pel, files, rd, wk, responses, now, cl>>

\* api.py 170-182, queue.py 74-88: XADD of the job's entry, then the Pending response.
UploadPublish(u) ==
    /\ up[u].pc = "publish"
    /\ stream' = Append(stream, [job_id |-> up[u].job_id,
                                 file_hash |-> up[u].file_hash])
    /\ responses' = Append(responses,
          UploadResponse(Called(up[u], "publish_job"), "pending", NoResults, FALSE))
    /\ up' = [up EXCEPT ![u] = IdleUpload]
    /\ UNCHANGED <<jobs, nextJobId, statusCache, fileCache, lastDelivered, pel,
                   files, rd, wk, faults, now, cl>>

\* queue.py 89-91, api.py 186-191: a failing XADD is re-raised and the request
\* ends with HTTP 500; the job row stays.
UploadPublishFail(u) ==
    /\ up[u].pc = "publish"
    /\ CanFail
    /\ faults' = faults + 1
    /\ responses' = Append(responses,
          UploadResponse(Called(up[u], "publish_job_failed"), "error", NoResults,
                         FALSE))
    /\ up' = [up EXCEPT ![u] = IdleUpload]
    /\ UNCHANGED <<jobs, nextJobId, statusCache, fileCache, stream, lastDelivered,
                   pel, files, rd, wk, now, cl>>

\* ------------------------------------------ calculate_hash_and_save
\* The next chunk file_data.read(chunk_size) returns.
NextChunk(req) ==
    SubSeq(FileBytes(req.content), req.written + 1,
           IF req.written + ChunkSize < Len(FileBytes(req.content))
           THEN req.written + ChunkSize ELSE Len(FileBytes(req.content)))

\* A chunk that reached the disk with its bytes damaged.
Damaged(chunk) == [i \in DOMAIN chunk |-> "?"]

\* storage.py 66-73: the temporary file is created empty and the request starts
\* streaming into it. Every request ends with one response; MaxJobs bounds the
\* requests of a behaviour, those that fail in the save included.
SaveOpen(u, c) ==
    /\ up[u].pc = "idle"
    /\ Len(responses) + Cardinality({v \in Requests : up[v].pc # "idle"}) < MaxJobs
    /\ files' = Put(files, TempPath(u), <<>>)
    /\ up' = [up EXCEPT ![u] = [IdleUpload EXCEPT !.pc = "write", !.content = c,
                                    !.started = Len(responses),
                                    !.opened = now, !.mtime = now]]
    /\ UNCHANGED <<jobs, nextJobId, statusCache, fileCache, stream, lastDelivered,
                   pel, rd, wk, responses, faults, now, cl>>

\* storage.py 74-85: one chunk is read, hashed and appended to the temporary file.
SaveWrite(u) ==
    /\ up[u].pc = "write"
    /\ up[u].written < Len(FileBytes(up[u].content))
    /\ files' = [files EXCEPT ![TempPath(u)] = @ \o NextChunk(up[u])]
    /\ up' = [up EXCEPT ![u].written = @ + Len(NextChunk(up[u])),
                         ![u].mtime = now]
    /\ UNCHANGED <<jobs, nextJobId, statusCache, fileCache, stream, lastDelivered,
                   pel, rd, wk, responses, faults, now, cl>>

\* storage.py 85: the chunk is hashed as it was read, but reaches the disk damaged.
SaveWriteDamaged(u) ==
    /\ up[u].pc = "write"
    /\ up[u].written < Len(FileBytes(up[u].content))
    /\ CanFail
    /\ faults' = faults + 1
    /\ files' = [files EXCEPT ![TempPath(u)] = @ \o Damaged(NextChunk(up[u]))]
    /\ up' = [up EXCEPT ![u].written = @ + Len(NextChunk(up[u])),
                         ![u].mtime = now]
    /\ UNCHANGED <<jobs, nextJobId, statusCache, fileCache, stream, lastDelivered,
                   pel, rd, wk, responses, now, cl>>

\* Mutant of SaveCheck: a save that finds the canonical path returns without
\* removing its temporary file.
SaveCheckKeepsTemp(u) ==
    /\ up[u].pc = "write"
    /\ up[u].written = Len(FileBytes(up[u].content))
    /\ LET file_hash == DigestOf(FileBytes(up[u].content))
       IN  up' = [up EXCEPT ![u] =
                    IF file_hash \in DOMAIN files
                    THEN [@ EXCEPT !.pc = "cache_lookup", !.file_hash = file_hash,
                                   !.save = "existed"]
                    ELSE [@ EXCEPT !.pc = "verify", !.file_hash = file_hash]]
    /\ UNCHANGED <<jobs, nextJobId, statusCache, fileCache, stream, lastDelivered,
                   pel, files, rd, wk, responses, faults, now, cl>>

\* storage.py 87-94, 105: at the end of the stream the digest of the bytes read is
\* the fingerprint; when the canonical path exists the temporary file is removed
\* and the save returns, otherwise the save goes on to the verification.
SaveCheck(u) ==
    /\ up[u].pc = "write"
    /\ up[u].written = Len(FileBytes(up[u].content))
    /\ LET file_hash == DigestOf(FileBytes(up[u].content))
       IN  IF file_hash \in DOMAIN files
           THEN /\ files' = Drop(files, TempPath(u))
                /\ up' = [up EXCEPT ![u] = [@ EXCEPT !.pc = "cache_lookup",
                                                !.file_hash = file_hash,
                                                !.save = "existed"]]
           ELSE /\ files' = files
                /\ up' = [up EXCEPT ![u] = [@ EXCEPT !.pc = "verify",
                                                !.file_hash = file_hash]]
    /\ UNCHANGED <<jobs, nextJobId, statusCache, fileCache, stream, lastDelivered,
                   pel, rd, wk, responses, faults, now, cl>>

\* Mutant of SaveVerify: on a mismatch the temporary file is removed and the
\* request goes on with the fingerprint.
SaveVerifyKeepsGoing(u) ==
    /\ up[u].pc = "verify"
    /\ IF DigestOf(files[TempPath(u)]) = up[u].file_hash
       THEN /\ up' = [up EXCEPT ![u].pc = "move"]
            /\ files' = files
       ELSE /\ files' = Drop(files, TempPath(u))
            /\ up' = [up EXCEPT ![u] = [@ EXCEPT !.pc = "cache_lookup",
                                            !.save = "moved"]]
    /\ UNCHANGED <<jobs, nextJobId, statusCache, fileCache, stream, lastDelivered,
                   pel, rd, wk, responses, faults, now, cl>>

\* Mutant of SaveVerify: the temporary file is moved without being read back.
SaveVerifyAlwaysPasses(u) ==
    /\ up[u].pc = "verify"
    /\ up' = [up EXCEPT ![u].pc = "move"]
    /\ UNCHANGED <<jobs, nextJobId, statusCache, fileCache, stream, lastDelivered,
                   pel, files, rd, wk, responses, faults, now, cl>>

\* storage.py 97, 123-153, 115-121 and api.py 186-191: the temporary file is read
\* back and hashed; on a mismatch it is removed, the IOError passes through the
\* handlers and the request ends with HTTP 500.
SaveVerify(u) ==
    /\ up[u].pc = "verify"
    /\ IF DigestOf(files[TempPath(u)]) = up[u].file_hash
       THEN /\ up' = [up EXCEPT ![u].pc = "move"]
            /\ UNCHANGED <<files, responses>>
       ELSE /\ files' = Drop(files, TempPath(u))
            /\ responses' = Append(responses,
                   UploadResponse(Called(up[u], "corruption_error"), "error",
                                  NoResults, FALSE))
            /\ up' = [up EXCEPT ![u] = IdleUpload]
    /\ UNCHANGED <<jobs, nextJobId, statusCache, fileCache, stream, lastDelivered,
                   pel, rd, wk, faults, now, cl>>

\* storage.py 99-105: the directories are made and shutil.move renames the temporary
\* file onto the canonical path, replacing whatever is there.
SaveMove(u) ==
    /\ up[u].pc = "move"
    /\ files' = Put(Drop(files, TempPath(u)), up[u].file_hash, files[TempPath(u)])
    /\ up' = [up EXCEPT ![u] = [@ EXCEPT !.pc = "cache_lookup", !.save = "moved"]]
    /\ UNCHANGED <<jobs, nextJobId, statusCache, fileCache, stream, lastDelivered,
                   pel, rd, wk, responses, faults, now, cl>>

\* The timeout handler without its unlink: the temporary file stays behind.
SaveTimeoutKeepsTemp(u) ==
    /\ up[u].pc \in {"write", "verify"}
    /\ CanFail
    /\ faults' = faults + 1
    /\ responses' = Append(responses,
           UploadResponse(Called(up[u], "upload_timeout"), "error", NoResults, FALSE))
    /\ up' = [up EXCEPT ![u] = IdleUpload]
    /\ UNCHANGED <<jobs, nextJobId, statusCache, fileCache, stream, lastDelivered,
                   pel, files, rd, wk, now, cl>>

\* storage.py 72, 107-114: the upload timeout fires at an await of the streaming or
\* of the verification; the temporary file is removed and the request ends with
\* HTTP 408.
SaveTimeout(u) ==
    /\ up[u].pc \in {"write", "verify"}
    /\ CanFail
    /\ faults' = faults + 1
    /\ files' = Drop(files, TempPath(u))
    /\ responses' = Append(responses,
           UploadResponse(Called(up[u], "upload_timeout"), "error", NoResults, FALSE))
    /\ up' = [up EXCEPT ![u] = IdleUpload]
    /\ UNCHANGED <<jobs, nextJobId, statusCache, fileCache, stream, lastDelivered,
                   pel, rd, wk, now, cl>>

\* storage.py 164-184, cleanup.py 32-36: delete_file removes the content at the
\* canonical path; its caller passes the fingerprints of job rows of the store.
DeleteFile(h) ==
    /\ \E id \in DOMAIN jobs : jobs[id].file_hash = h
    /\ h \in DOMAIN files
    /\ files' = Drop(files, h)
    /\ UNCHANGED <<jobs, nextJobId, statusCache, fileCache, stream, lastDelivered,
                   pel, up, rd, wk, responses, faults, now, cl>>

\* ---------------------------------------------------- get_job_status
\* The response of get_job_status: a job snapshot (JobStatusResponse) read from
\* the cache or from the store, or the HTTP 404.
StatusResponse(job_id, kind, source, data) ==
    [kind |-> kind, source |-> source, data |-> data, job_id |-> job_id]

\* api.py 204-216, cache.py 76-86: the cached status is returned on a hit; on a
\* miss the request goes on to the durable store.
ReadCacheGet(r, id) ==
    /\ rd[r].pc = "idle"
    /\ rd' = [rd EXCEPT ![r] =
                IF id \in DOMAIN statusCache
                THEN [IdleReader EXCEPT !.resp =
                        StatusResponse(id, "job", "cache", statusCache[id])]
                ELSE [IdleReader EXCEPT !.pc = "db_get", !.job_id = id]]
    /\ UNCHANGED <<jobs, nextJobId, statusCache, fileCache, stream, lastDelivered,
                   pel, files, up, wk, responses, faults, now, cl>>

\* cache.py 87-89: a failing Redis GET is logged and read as a miss.
ReadCacheGetFail(r, id) ==
    /\ rd[r].pc = "idle"
    /\ CanFail
    /\ faults' = faults + 1
    /\ rd' = [rd EXCEPT ![r] = [IdleReader EXCEPT !.pc = "db_get", !.job_id = id]]
    /\ UNCHANGED <<jobs, nextJobId, statusCache, fileCache, stream, lastDelivered,
                   pel, files, up, wk, responses, now, cl>>

\* Mutant of ReadDbGet: an id the store does not hold is answered with a default
\* Pending job, which goes on to be cached.
ReadDbGetDefaultsMissing(r) ==
    /\ rd[r].pc = "db_get"
    /\ rd' = [rd EXCEPT ![r] =
                [@ EXCEPT !.pc = "cache_set",
                          !.data = IF rd[r].job_id \in DOMAIN jobs
                                   THEN CacheData(jobs[rd[r].job_id])
                                   ELSE [NoData EXCEPT !.status = "pending"]]]
    /\ UNCHANGED <<jobs, nextJobId, statusCache, fileCache, stream, lastDelivered,
                   pel, files, up, wk, responses, faults, now, cl>>

\* api.py 218-223, database.py 105-127: the row by id, or HTTP 404 when there is none.
ReadDbGet(r) ==
    /\ rd[r].pc = "db_get"
    /\ rd' = [rd EXCEPT ![r] =
                IF rd[r].job_id \in DOMAIN jobs
                THEN [@ EXCEPT !.pc = "cache_set",
                               !.data = CacheData(jobs[rd[r].job_id])]
                ELSE [IdleReader EXCEPT !.resp =
                        StatusResponse(rd[r].job_id, "not_found", "none", NoData)]]
    /\ UNCHANGED <<jobs, nextJobId, statusCache, fileCache, stream, lastDelivered,
                   pel, files, up, wk, responses, faults, now, cl>>

\* api.py 225-237, cache.py 43-72: the row read from the store is written to the
\* status cache and returned.
ReadCacheSet(r) ==
    /\ rd[r].pc = "cache_set"
    /\ statusCache' = Put(statusCache, rd[r].job_id, rd[r].data)
    /\ rd' = [rd EXCEPT ![r] =
                [IdleReader EXCEPT !.resp =
                    StatusResponse(rd[r].job_id, "job", "store", rd[r].data)]]
    /\ UNCHANGED <<jobs, nextJobId, fileCache, stream, lastDelivered, pel, files,
                   up, wk, responses, faults, now, cl>>

\* cache.py 73-74: a failing SETEX is logged and ignored; the row is still returned.
ReadCacheSetFail(r) ==
    /\ rd[r].pc = "cache_set"
    /\ CanFail
    /\ faults' = faults + 1
    /\ rd' = [rd EXCEPT ![r] =
                [IdleReader EXCEPT !.resp =
                    StatusResponse(rd[r].job_id, "job", "store", rd[r].data)]]
    /\ UNCHANGED <<jobs, nextJobId, statusCache, fileCache, stream, lastDelivered,
                   pel, files, up, wk, responses, now, cl>>

\* ------------------------------------------------------- cache expiry
\* cache.py 67-71 (SETEX job_cache_ttl): a status entry ends with its TTL.
ExpireJobStatus(id) ==
    /\ id \in DOMAIN statusCache
    /\ statusCache' = Drop(statusCache, id)
    /\ UNCHANGED <<jobs, nextJobId, fileCache, stream, lastDelivered, pel, files,
                   up, rd, wk, responses, faults, now, cl>>

\* cache.py 110-114, worker_simulator.py 124 (SETEX file_cache_ttl): a results
\* entry ends with its TTL.
ExpireFileResults(h) ==
    /\ h \in DOMAIN fileCache
    /\ fileCache' = Drop(fileCache, h)
    /\ UNCHANGED <<jobs, nextJobId, statusCache, stream, lastDelivered, pel, files,
                   up, rd, wk, responses, faults, now, cl>>

\* ------------------------------------------------------------- worker
\* worker_simulator.py 98-107: the UPDATE of one row. COALESCE keeps the stored
\* results when none are given; error_message is overwritten in every case.
UpdatedRow(row, status, results, error_message) ==
    [row EXCEPT !.status = status,
                !.results = IF HasResults(results) THEN results ELSE @,
                !.error_message = error_message]

\* The job id and fingerprint of the stream entry the worker holds.
EntryOf(w) == stream[wk[w].msg]

\* worker_simulator.py 155-157 and 188-189: an exception inside the try block enters
\* the handler, which sets the job Failed; an exception of that update leaves
\* process_message and ends run().
Raised(worker, error) ==
    IF worker.phase = "failed"
    THEN [IdleWorker EXCEPT !.pc = "stopped"]
    ELSE [worker EXCEPT !.pc = "update", !.phase = "failed", !.results = NoResults,
                        !.error = error]

\* Mutant of AfterUpdate: the entry is acknowledged as soon as the Processing
\* update has returned.
AfterUpdateAcksEarly(worker) ==
    IF worker.phase = "processing" THEN [worker EXCEPT !.pc = "xack"]
    ELSE IF worker.phase = "completed" THEN [worker EXCEPT !.pc = "cache_results"]
    ELSE IdleWorker

\* Where process_message goes on after update_job_status has returned.
AfterUpdate(worker) ==
    IF worker.phase = "processing" THEN [worker EXCEPT !.pc = "scan"]
    ELSE IF worker.phase = "completed" THEN [worker EXCEPT !.pc = "cache_results"]
    ELSE IdleWorker

\* worker_simulator.py 166-184: XREADGROUP '>' COUNT 1 hands the worker the next
\* entry never delivered to the group and puts it on the pending list;
\* process_message starts with the Processing update (141).
WorkerPoll(w) ==
    /\ wk[w].pc = "poll"
    /\ lastDelivered < Len(stream)
    /\ lastDelivered' = lastDelivered + 1
    /\ pel' = pel \cup {lastDelivered + 1}
    /\ wk' = [wk EXCEPT ![w] = [IdleWorker EXCEPT !.pc = "update",
                                    !.msg = lastDelivered + 1,
                                    !.phase = "processing"]]
    /\ UNCHANGED <<jobs, nextJobId, statusCache, fileCache, stream, files, up, rd,
                   responses, faults, now, cl>>

\* worker_simulator.py 173-176: a stream read error is logged and the loop polls again.
WorkerPollFail(w) ==
    /\ wk[w].pc = "poll"
    /\ CanFail
    /\ faults' = faults + 1
    /\ UNCHANGED <<jobs, nextJobId, statusCache, fileCache, stream, lastDelivered,
                   pel, files, up, rd, wk, responses, now, cl>>

\* worker_simulator.py 109-110: the UPDATE of update_job_status (no row, no change).
WorkerUpdate(w) ==
    /\ wk[w].pc = "update"
    /\ LET id == EntryOf(w).job_id
       IN  jobs' = IF id \in DOMAIN jobs
                   THEN [jobs EXCEPT ![id] =
                           UpdatedRow(@, wk[w].phase, wk[w].results, wk[w].error)]
                   ELSE jobs
    /\ wk' = [wk EXCEPT ![w].pc = "invalidate"]
    /\ UNCHANGED <<nextJobId, statusCache, fileCache, stream, lastDelivered, pel,
                   files, up, rd, responses, faults, now, cl>>

\* worker_simulator.py 109-110: the UPDATE raises (connection lost, timeout).
WorkerUpdateFail(w) ==
    /\ wk[w].pc = "update"
    /\ CanFail
    /\ faults' = faults + 1
    /\ wk' = [wk EXCEPT ![w] = Raised(@, "db_error")]
    /\ UNCHANGED <<jobs, nextJobId, statusCache, fileCache, stream, lastDelivered,
                   pel, files, up, rd, responses, now, cl>>

\* worker_simulator.py 112-114: the cached status of the job is deleted.
WorkerInvalidate(w) ==
    /\ wk[w].pc = "invalidate"
    /\ statusCache' = Drop(statusCache, EntryOf(w).job_id)
    /\ wk' = [wk EXCEPT ![w] = AfterUpdate(@)]
    /\ UNCHANGED <<jobs, nextJobId, fileCache, stream, lastDelivered, pel, files,
                   up, rd, responses, faults, now, cl>>

\* worker_simulator.py 114: the DEL raises; update_job_status has no handler for it.
WorkerInvalidateFail(w) ==
    /\ wk[w].pc = "invalidate"
    /\ CanFail
    /\ faults' = faults + 1
    /\ wk' = [wk EXCEPT ![w] = Raised(@, "cache_error")]
    /\ UNCHANGED <<jobs, nextJobId, statusCache, fileCache, stream, lastDelivered,
                   pel, files, up, rd, responses, now, cl>>

\* A worker that caches the results of the scan without storing them first.
WorkerScanCachesFirst(w) ==
    /\ wk[w].pc = "scan"
    /\ EntryOf(w).file_hash \in DOMAIN files
    /\ wk' = [wk EXCEPT ![w] = [@ EXCEPT !.pc = "cache_results",
                                   !.phase = "completed",
                                   !.results = scan_file(files[EntryOf(w).file_hash])]]
    /\ UNCHANGED <<jobs, nextJobId, statusCache, fileCache, stream, lastDelivered,
                   pel, files, up, rd, responses, faults, now, cl>>

\* worker_simulator.py 144-145, 70-86: the stored content is scanned and the
\* Completed update follows.
WorkerScan(w) ==
    /\ wk[w].pc = "scan"
    /\ EntryOf(w).file_hash \in DOMAIN files
    /\ wk' = [wk EXCEPT ![w] = [@ EXCEPT !.pc = "update", !.phase = "completed",
                                   !.results = scan_file(files[EntryOf(w).file_hash])]]
    /\ UNCHANGED <<jobs, nextJobId, statusCache, fileCache, stream, lastDelivered,
                   pel, files, up, rd, responses, faults, now, cl>>

\* worker_simulator.py 74-79: the file is missing at the worker's path or cannot
\* be opened or read.
WorkerScanFail(w) ==
    /\ wk[w].pc = "scan"
    /\ wk' = [wk EXCEPT ![w] = Raised(@, "scan_error")]
    /\ UNCHANGED <<jobs, nextJobId, statusCache, fileCache, stream, lastDelivered,
                   pel, files, up, rd, responses, faults, now, cl>>

\* worker_simulator.py 146, 116-124: the results are cached under the fingerprint.
WorkerCacheResults(w) ==
    /\ wk[w].pc = "cache_results"
    /\ fileCache' = Put(fileCache, EntryOf(w).file_hash, wk[w].results)
    /\ wk' = [wk EXCEPT ![w].pc = "xack"]
    /\ UNCHANGED <<jobs, nextJobId, statusCache, stream, lastDelivered, pel, files,
                   up, rd, responses, faults, now, cl>>

\* worker_simulator.py 124: the SETEX raises inside the try block.
WorkerCacheResultsFail(w) ==
    /\ wk[w].pc = "cache_results"
    /\ CanFail
    /\ faults' = faults + 1
    /\ wk' = [wk EXCEPT ![w] = Raised(@, "cache_error")]
    /\ UNCHANGED <<jobs, nextJobId, statusCache, fileCache, stream, lastDelivered,
                   pel, files, up, rd, responses, now, cl>>

\* worker_simulator.py 149-153: XACK takes the entry off the pending list.
WorkerXack(w) ==
    /\ wk[w].pc = "xack"
    /\ pel' = pel \ {wk[w].msg}
    /\ wk' = [wk EXCEPT ![w] = IdleWorker]
    /\ UNCHANGED <<jobs, nextJobId, statusCache, fileCache, stream, lastDelivered,
                   files, up, rd, responses, faults, now, cl>>

\* worker_simulator.py 149-153: the XACK raises inside the try block.
WorkerXackFail(w) ==
    /\ wk[w].pc = "xack"
    /\ CanFail
    /\ faults' = faults + 1
    /\ wk' = [wk EXCEPT ![w] = Raised(@, "ack_error")]
    /\ UNCHANGED <<jobs, nextJobId, statusCache, fileCache, stream, lastDelivered,
                   pel, files, up, rd, responses, now, cl>>

\* worker_simulator.py 192-199: the worker process dies (kill, OOM, host loss) while
\* it holds an entry; nothing of process_message runs after that and the entry
\* stays on the group's pending list.
WorkerCrash(w) ==
    /\ wk[w].msg # 0
    /\ wk[w].pc \notin {"poll", "stopped", "crashed"}
    /\ wk' = [wk EXCEPT ![w].pc = "crashed"]
    /\ UNCHANGED <<jobs, nextJobId, statusCache, fileCache, stream, lastDelivered,
                   pel, files, up, rd, responses, faults, now, cl>>

\* ------------------------------------------------------ specification
\* upload_file, without failing Redis calls.
UploadStep ==
    \/ \E u \in Uploaders, c \in Contents : UploadStart(u, c)
    \/ \E u \in Uploaders : UploadCacheLookup(u)
    \/ \E u \in Uploaders : UploadCreateCached(u)
    \/ \E u \in Uploaders : UploadDbLookup(u)
    \/ \E u \in Uploaders : UploadBackfill(u)
    \/ \E u \in Uploaders : UploadCreateDedup(u)
    \/ \E u \in Uploaders : UploadCreatePending(u)
    \/ \E u \in Uploaders : UploadCacheJob(u)
    \/ \E u \in Uploaders : UploadPublish(u)

\* The failing Redis calls of upload_file.
UploadFault ==
    \/ \E u \in Uploaders : UploadCacheLookupFail(u)
    \/ \E u \in Uploaders : UploadBackfillFail(u)
    \/ \E u \in Uploaders : UploadCacheJobFail(u)
    \/ \E u \in Uploaders : UploadPublishFail(u)

\* The worker's run loop and process_message, without failing Redis/Postgres calls.
WorkerStep(W) ==
    \/ \E w \in W : WorkerPoll(w)
    \/ \E w \in W : WorkerUpdate(w)
    \/ \E w \in W : WorkerInvalidate(w)
    \/ \E w \in W : WorkerScan(w)
    \/ \E w \in W : WorkerScanFail(w)
    \/ \E w \in W : WorkerCacheResults(w)
    \/ \E w \in W : WorkerXack(w)

\* The failing Redis/Postgres calls of the worker.
WorkerFault(W) ==
    \/ \E w \in W : WorkerPollFail(w)
    \/ \E w \in W : WorkerUpdateFail(w)
    \/ \E w \in W : WorkerInvalidateFail(w)
    \/ \E w \in W : WorkerCacheResultsFail(w)
    \/ \E w \in W : WorkerXackFail(w)

\* get_job_status, every step and every failing cache call of it.
ReadStep ==
    \/ \E r \in Readers, id \in QueryIds : ReadCacheGet(r, id)
    \/ \E r \in Readers, id \in QueryIds : ReadCacheGetFail(r, id)
    \/ \E r \in Readers : ReadDbGet(r)
    \/ \E r \in Readers : ReadCacheSet(r)
    \/ \E r \in Readers : ReadCacheSetFail(r)

\* The job pipeline: uploads, the fingerprint cache with its TTL, the stream and
\* the workers, with failing dependency calls. Status queries are left out: they
\* write the status cache alone, which no step of the pipeline reads.
Next ==
    \/ UploadStep
    \/ UploadFault
    \/ WorkerStep(Workers)
    \/ WorkerFault(Workers)
    \/ \E h \in Hashes : ExpireFileResults(h)

Spec == Init /\ [][Next]_vars

\* The status path: status queries and the status cache with its TTL, interleaved
\* with the uploads and one worker's status transitions.
NextStatus ==
    \/ UploadStep
    \/ WorkerStep(StatusWorkers)
    \/ ReadStep
    \/ \E id \in JobIds : ExpireJobStatus(id)
    \/ \E h \in Hashes : ExpireFileResults(h)

SpecStatus == Init /\ [][NextStatus]_vars

\* The pipeline with only the failures of the calls that follow the Completed
\* update inside the try block: the result-cache write and the XACK (the scan's
\* own failure is part of WorkerStep).
NextAckFaults ==
    \/ UploadStep
    \/ WorkerStep(Workers)
    \/ \E w \in Workers : WorkerCacheResultsFail(w)
    \/ \E w \in Workers : WorkerXackFail(w)
    \/ \E h \in Hashes : ExpireFileResults(h)

SpecAckFaults == Init /\ [][NextAckFaults]_vars

\* The worker that may die while it holds an entry; the other one keeps running.
CrashWorkers == {"w1"}

\* The worker whose run loop is never killed.
LiveWorkers == Workers \ CrashWorkers

\* The pipeline without failing dependency calls, in which one worker process may
\* die while it holds an entry.
NextCrash ==
    \/ UploadStep
    \/ WorkerStep(Workers)
    \/ \E w \in CrashWorkers : WorkerCrash(w)
    \/ \E h \in Hashes : ExpireFileResults(h)

\* Requests in flight run to their end (the event loop resumes every coroutine),
\* and the loop of a worker that is not killed keeps polling and processing
\* (worker_simulator.py 164-184, while True).
SpecCrash ==
    /\ Init
    /\ [][NextCrash]_vars
    /\ WF_vars(UploadStep)
    /\ WF_vars(WorkerStep(LiveWorkers))

\* calculate_hash_and_save, step by step, with damaged writes and timeouts.
SaveStep ==
    \/ \E u \in Requests, c \in Contents : SaveOpen(u, c)
    \/ \E u \in Requests : SaveWrite(u)
    \/ \E u \in Requests : SaveWriteDamaged(u)
    \/ \E u \in Requests : SaveCheck(u)
    \/ \E u \in Requests : SaveVerify(u)
    \/ \E u \in Requests : SaveMove(u)
    \/ \E u \in Requests : SaveTimeout(u)

\* The storage path: two upload requests whose saves interleave step by step, the
\* rest of upload_file after the save, and deletes of stored contents. No worker
\* runs, so every job stays Pending and the deduplication branches are not taken.
NextStorage ==
    \/ SaveStep
    \/ \E u \in Requests : UploadCacheLookup(u)
    \/ \E u \in Requests : UploadDbLookup(u)
    \/ \E u \in Requests : UploadCreatePending(u)
    \/ \E u \in Requests : UploadCacheJob(u)
    \/ \E u \in Requests : UploadPublish(u)
    \/ \E h \in Hashes : DeleteFile(h)

SpecStorage == Init /\ [][NextStorage]_vars

\* ------------------------------------------------------------ admission
\* Disk usage in percent, as shutil.disk_usage may give it at any call: values on
\* both sides of every threshold. Fractions of a percent are left out.
Percents == {50, 84, 85, 89, 90, 94, 95, 96}

\* StorageService._get_storage_status: the tier of a usage.
_get_storage_status(percent_used) ==
    IF percent_used >= storage_emergency_threshold THEN "emergency"
    ELSE IF percent_used >= storage_critical_threshold THEN "critical"
    ELSE IF percent_used >= storage_warning_threshold THEN "warning"
    ELSE "healthy"

\* StorageService.get_storage_stats: the usage and its tier, or the error dict when
\* disk_usage raises.
StatsError == [error |-> TRUE, percent_used |-> 0, status |-> "unknown"]
get_storage_stats(percent_used) ==
    [error |-> FALSE, percent_used |-> percent_used,
     status |-> _get_storage_status(percent_used)]
Stats == {get_storage_stats(p) : p \in Percents} \cup {StatsError}

\* A variant of should_accept_upload that refuses at the Critical tier as well.
should_accept_upload_refusing_critical(stats) ==
    [status |-> stats.status, percent_used |-> stats.percent_used,
     accept |-> stats.error \/ stats.status \notin {"emergency", "critical"},
     message |-> IF stats.error \/ stats.status \notin {"emergency", "critical"}
                 THEN <<"ok">>
                 ELSE <<"uploads_disabled", stats.percent_used>>]

\* StorageService.should_accept_upload on the stats it reads: the pair
\* (should_accept, reason), with the stats it was computed from.
should_accept_upload(stats) ==
    [status |-> stats.status, percent_used |-> stats.percent_used,
     accept |-> stats.error \/ stats.status # "emergency",
     message |-> IF stats.error THEN <<"ok">>
                 ELSE IF stats.status = "emergency"
                      THEN <<"uploads_disabled", stats.percent_used>>
                 ELSE IF stats.status = "critical"
                      THEN <<"warning", stats.percent_used>>
                 ELSE <<"ok">>]

\* A variant of the refusal that stores the content before it answers.
UploadRefuseAfterSave(u, c, stats) ==
    /\ up[u].pc = "idle"
    /\ Len(responses) + Cardinality({v \in Requests : up[v].pc # "idle"}) < MaxJobs
    /\ ~should_accept_upload(stats).accept
    /\ files' = Put(files, Sha256(c), FileBytes(c))
    /\ responses' = Append(responses,
           UploadResponse([Called(IdleUpload, "insufficient_storage")
                               EXCEPT !.admission = should_accept_upload(stats),
                                      !.started = Len(responses)],
                          "error", NoResults, FALSE))
    /\ UNCHANGED <<jobs, nextJobId, statusCache, fileCache, stream, lastDelivered,
                   pel, up, rd, wk, faults, now, cl>>

\* api.py 92-97: should_accept_upload refuses, and the request ends with HTTP 507
\* before the content is read.
UploadRefuse(u, c, stats) ==
    /\ up[u].pc = "idle"
    /\ Len(responses) + Cardinality({v \in Requests : up[v].pc # "idle"}) < MaxJobs
    /\ ~should_accept_upload(stats).accept
    /\ responses' = Append(responses,
           UploadResponse([Called(IdleUpload, "insufficient_storage")
                               EXCEPT !.admission = should_accept_upload(stats),
                                      !.started = Len(responses)],
                          "error", NoResults, FALSE))
    /\ UNCHANGED <<jobs, nextJobId, statusCache, fileCache, stream, lastDelivered,
                   pel, files, up, rd, wk, faults, now, cl>>

\* api.py 92-112: should_accept_upload accepts, and the content is hashed and
\* stored; the request goes on to the fingerprint cache lookup.
UploadAdmit(u, c, stats) ==
    /\ up[u].pc = "idle"
    /\ Len(responses) + Cardinality({v \in Requests : up[v].pc # "idle"}) < MaxJobs
    /\ should_accept_upload(stats).accept
    /\ files' = IF Sha256(c) \in DOMAIN files THEN files
                ELSE Put(files, Sha256(c), FileBytes(c))
    /\ up' = [up EXCEPT ![u] = [IdleUpload EXCEPT !.pc = "cache_lookup",
                                    !.file_hash = Sha256(c),
                                    !.started = Len(responses),
                                    !.admission = should_accept_upload(stats)]]
    /\ UNCHANGED <<jobs, nextJobId, statusCache, fileCache, stream, lastDelivered,
                   pel, rd, wk, responses, faults, now, cl>>

\* upload_file behind its admission check, at any disk usage; no worker runs.
NextAdmission ==
    \/ \E u \in Uploaders, c \in Contents, stats \in Stats : UploadRefuse(u, c, stats)
    \/ \E u \in Uploaders, c \in Contents, stats \in Stats : UploadAdmit(u, c, stats)
    \/ \E u \in Uploaders : UploadCacheLookup(u)
    \/ \E u \in Uploaders : UploadDbLookup(u)
    \/ \E u \in Uploaders : UploadCreatePending(u)
    \/ \E u \in Uploaders : UploadCacheJob(u)
    \/ \E u \in Uploaders : UploadPublish(u)

SpecAdmission == Init /\ [][NextAdmission]_vars

\* -------------------------------------------------------------- cleanup
\* The clock advances. A save does not outlive the upload timeout: time does not
\* pass the deadline of a save that is still streaming, verifying or moving.
SavePcs == {"write", "verify", "move"}

Tick ==
    /\ now < MaxTime
    /\ \A u \in Requests :
            up[u].pc \in SavePcs
                => now - up[u].opened < Ticks(upload_timeout_seconds)
    /\ now' = now + 1
    /\ UNCHANGED <<jobs, nextJobId, statusCache, fileCache, stream, lastDelivered,
                   pel, files, up, rd, wk, responses, faults, cl>>

\* The process serving a request is killed during the save (SIGKILL, crash, power
\* loss): no handler runs, and the temporary file stays where it is.
SaveKill(u) ==
    /\ up[u].pc \in SavePcs
    /\ CanFail
    /\ faults' = faults + 1
    /\ up' = [up EXCEPT ![u].pc = "killed"]
    /\ UNCHANGED <<jobs, nextJobId, statusCache, fileCache, stream, lastDelivered,
                   pel, files, rd, wk, responses, now, cl>>

\* os.path.getmtime of a temporary file: the time of the last write of the request
\* that created it.
getmtime(path) == up[CHOOSE u \in Requests : TempPath(u) = path].mtime

\* The files glob finds under base_path with the temp_ prefix.
TempFiles == DOMAIN files \cap TempPaths

\* An orphan pass that takes every temporary file, whatever its age.
AllTempFiles == TempFiles

\* cleanup_orphaned_temp_files, the files it unlinks: the temporary files whose
\* age is above the threshold.
OrphanedTempFiles ==
    {t \in TempFiles :
        now - getmtime(t) > Ticks(Hours(cleanup_orphaned_files_hours))}

\* A query that ignores the age and returns every fingerprint of the table.
get_all_file_hashes(days) == {jobs[id].file_hash : id \in DOMAIN jobs}

\* Database.get_old_file_hashes(days): the distinct fingerprints of the rows
\* created more than days ago, whatever their status and expiration.
get_old_file_hashes(days) ==
    {jobs[id].file_hash :
        id \in {i \in DOMAIN jobs : jobs[i].created_at < now - Ticks(Days(days))}}

\* Database.delete_expired_jobs: the rows whose expiration has passed.
ExpiredJobs == {id \in DOMAIN jobs : expires_at(jobs[id]) < now}

\* A ladder that ends in the retention branch for every tier.
BranchAlwaysHealthy(status) == "healthy"

\* cleanup_by_storage_state 82-120: the if/elif ladder on stats["status"].
Branch(status) ==
    IF status = "emergency" THEN "emergency"
    ELSE IF status = "critical" THEN "critical"
    ELSE IF status = "warning" THEN "warning"
    ELSE "healthy"

\* The days argument each branch passes to get_old_file_hashes.
BranchDays(branch) ==
    IF branch = "emergency" THEN 0
    ELSE IF branch = "critical" THEN 1
    ELSE IF branch = "warning" THEN 3
    ELSE file_retention_days

\* An orphan pass whose glob also matches the canonical locations.
OrphanPassTakesContent ==
    /\ cl.pc = "sleep"
    /\ files' = [x \in DOMAIN files \ (OrphanedTempFiles \cup Hashes) |-> files[x]]
    /\ cl' = [IdleCleanup EXCEPT !.pc = "stats", !.ran = <<"orphans">>,
                                 !.removed = OrphanedTempFiles]
    /\ UNCHANGED <<jobs, nextJobId, statusCache, fileCache, stream, lastDelivered,
                   pel, up, rd, wk, responses, faults, now>>

\* A cycle that starts without its orphan pass.
CleanupOrphansSkipped ==
    /\ cl.pc = "sleep"
    /\ cl' = [IdleCleanup EXCEPT !.pc = "stats"]
    /\ UNCHANGED <<jobs, nextJobId, statusCache, fileCache, stream, lastDelivered,
                   pel, files, up, rd, wk, responses, faults, now>>

\* cleanup.py 71, storage.py 194-259: a cycle begins with
\* cleanup_orphaned_temp_files.
CleanupOrphans ==
    /\ cl.pc = "sleep"
    /\ files' = [x \in DOMAIN files \ OrphanedTempFiles |-> files[x]]
    /\ cl' = [IdleCleanup EXCEPT !.pc = "stats", !.ran = <<"orphans">>,
                                 !.removed = OrphanedTempFiles]
    /\ UNCHANGED <<jobs, nextJobId, statusCache, fileCache, stream, lastDelivered,
                   pel, up, rd, wk, responses, faults, now>>

\* A cycle that takes unreadable stats for a healthy disk and goes on to the
\* retention branch.
CleanupStatsIgnoresError(stats) ==
    /\ cl.pc = "stats"
    /\ cl' = [cl EXCEPT !.pc = IF stats.error \/ Branch(stats.status) = "healthy"
                               THEN "expired" ELSE "old_hashes",
                        !.status = stats.status,
                        !.ran = @ \o <<"stats", Branch(stats.status)>>]
    /\ UNCHANGED <<jobs, nextJobId, statusCache, fileCache, stream, lastDelivered,
                   pel, files, up, rd, wk, responses, faults, now>>

\* cleanup.py 74-80, 82-120: get_storage_stats; with unreadable stats the cycle
\* ends, otherwise the ladder picks the branch of the measured tier.
CleanupStats(stats) ==
    /\ cl.pc = "stats"
    /\ cl' = IF stats.error
             THEN [cl EXCEPT !.pc = "sleep", !.status = stats.status,
                             !.ran = Append(@, "stats")]
             ELSE [cl EXCEPT !.pc = IF Branch(stats.status) = "healthy"
                                    THEN "expired" ELSE "old_hashes",
                             !.status = stats.status,
                             !.ran = @ \o <<"stats", Branch(stats.status)>>]
    /\ UNCHANGED <<jobs, nextJobId, statusCache, fileCache, stream, lastDelivered,
                   pel, files, up, rd, wk, responses, faults, now>>

\* cleanup.py 30, database.py 189-200: the retention branch deletes the expired
\* rows first.
CleanupDeleteExpired ==
    /\ cl.pc = "expired"
    /\ jobs' = [id \in DOMAIN jobs \ ExpiredJobs |-> jobs[id]]
    /\ cl' = [cl EXCEPT !.pc = "old_hashes",
                        !.deleted_jobs = {jobs[id].file_hash : id \in ExpiredJobs}]
    /\ UNCHANGED <<nextJobId, statusCache, fileCache, stream, lastDelivered, pel,
                   files, up, rd, wk, responses, faults, now>>

\* cleanup.py 33, 85, 97, 109: get_old_file_hashes with the days of the branch.
CleanupOldHashes ==
    /\ cl.pc = "old_hashes"
    /\ cl' = [cl EXCEPT !.pc = "delete",
                        !.old_hashes = get_old_file_hashes(BranchDays(cl.ran[3]))]
    /\ UNCHANGED <<jobs, nextJobId, statusCache, fileCache, stream, lastDelivered,
                   pel, files, up, rd, wk, responses, faults, now>>

\* cleanup.py 36, 86, 98, 110, storage.py 164-192: delete_files unlinks the
\* content of every fingerprint of the list, and the cycle ends.
CleanupDeleteFiles ==
    /\ cl.pc = "delete"
    /\ files' = [x \in DOMAIN files \ cl.old_hashes |-> files[x]]
    /\ cl' = [cl EXCEPT !.pc = "sleep"]
    /\ UNCHANGED <<jobs, nextJobId, statusCache, fileCache, stream, lastDelivered,
                   pel, up, rd, wk, responses, faults, now>>

\* One cycle of cleanup_by_storage_state, at any disk usage.
CleanupStep ==
    \/ CleanupOrphans
    \/ \E stats \in Stats : CleanupStats(stats)
    \/ CleanupDeleteExpired
    \/ CleanupOldHashes
    \/ CleanupDeleteFiles

\* Retention: uploads of one client, the clock and the cleanup cycles. No worker
\* runs, so every job stays Pending and the deduplication branches are not taken.
NextRetention ==
    \/ \E u \in Uploaders, c \in Contents : UploadStart(u, c)
    \/ \E u \in Uploaders : UploadCacheLookup(u)
    \/ \E u \in Uploaders : UploadDbLookup(u)
    \/ \E u \in Uploaders : UploadCreatePending(u)
    \/ \E u \in Uploaders : UploadCacheJob(u)
    \/ \E u \in Uploaders : UploadPublish(u)
    \/ Tick
    \/ CleanupStep

SpecRetention == Init /\ [][NextRetention]_vars

\* The orphan pass looks at names and modification times only: the saves it runs
\* beside upload one content, as one chunk.
ReclaimContents == {"c2"}

\* Orphan reclamation: the saves of two requests step by step, up to the return of
\* calculate_hash_and_save, with timeouts and killed processes, the clock and the
\* cleanup cycles.
NextReclaim ==
    \/ \E u \in Requests, c \in ReclaimContents : SaveOpen(u, c)
    \/ \E u \in Requests : SaveWrite(u)
    \/ \E u \in Requests : SaveCheck(u)
    \/ \E u \in Requests : SaveVerify(u)
    \/ \E u \in Requests : SaveMove(u)
    \/ \E u \in Requests : SaveTimeout(u)
    \/ \E u \in Requests : SaveKill(u)
    \/ Tick
    \/ CleanupStep

SpecReclaim == Init /\ [][NextReclaim]_vars

\* ------------------------------------------------------- orphan pass
\* The orphan pass beside whole uploads of one client: the save step by step,
\* which may be killed, the rest of the handler up to the published entry, the
\* clock and the cleanup cycles.
NextOrphans ==
    \/ \E u \in Uploaders, c \in ReclaimContents : SaveOpen(u, c)
    \/ \E u \in Uploaders : SaveWrite(u)
    \/ \E u \in Uploaders : SaveCheck(u)
    \/ \E u \in Uploaders : SaveVerify(u)
    \/ \E u \in Uploaders : SaveMove(u)
    \/ \E u \in Uploaders : SaveKill(u)
    \/ \E u \in Uploaders : UploadCacheLookup(u)
    \/ \E u \in Uploaders : UploadDbLookup(u)
    \/ \E u \in Uploaders : UploadCreatePending(u)
    \/ \E u \in Uploaders : UploadCacheJob(u)
    \/ \E u \in Uploaders : UploadPublish(u)
    \/ Tick
    \/ CleanupStep

SpecOrphans == Init /\ [][NextOrphans]_vars

\* ------------------------------------------------------ unreadable stats
\* What disk_usage gives the admission checks of this specification: an error or
\* a healthy disk, so that every upload is admitted.
AdmissionStats == {StatsError, get_storage_stats(50)}

\* Uploads of one content behind their admission check, the clock and the cleanup
\* cycles, where get_storage_stats may fail on either side.
NextUnreadable ==
    \/ \E u \in Uploaders, c \in ReclaimContents, stats \in AdmissionStats :
            UploadAdmit(u, c, stats)
    \/ \E u \in Uploaders : UploadCacheLookup(u)
    \/ \E u \in Uploaders : UploadDbLookup(u)
    \/ \E u \in Uploaders : UploadCreatePending(u)
    \/ \E u \in Uploaders : UploadCacheJob(u)
    \/ \E u \in Uploaders : UploadPublish(u)
    \/ Tick
    \/ CleanupStep

SpecUnreadable == Init /\ [][NextUnreadable]_vars

\* ------------------------------------------------------------ scheduler
\* An exception that leaves the while loop of run_periodic_cleanup.
CleanupRaiseEndsLoop ==
    /\ cl.pc \in {"expired", "old_hashes"}
    /\ CanFail
    /\ faults' = faults + 1
    /\ cl' = [cl EXCEPT !.pc = "cancelled", !.ran = Append(@, "error")]
    /\ UNCHANGED <<jobs, nextJobId, statusCache, fileCache, stream, lastDelivered,
                   pel, files, up, rd, wk, responses, now>>

\* A database call of the cycle raises: delete_expired_jobs or
\* get_old_file_hashes. In the retention branch cleanup_expired_files catches the
\* exception, logs it and returns an error result (cleanup.py 48-54); in a tier
\* branch it reaches run_periodic_cleanup, whose except Exception logs it
\* (cleanup.py 140-141). Either way the loop is back at its sleep.
CleanupRaise ==
    /\ cl.pc \in {"expired", "old_hashes"}
    /\ CanFail
    /\ faults' = faults + 1
    /\ cl' = [cl EXCEPT !.pc = "sleep", !.ran = Append(@, "error")]
    /\ UNCHANGED <<jobs, nextJobId, statusCache, fileCache, stream, lastDelivered,
                   pel, files, up, rd, wk, responses, now>>

\* cleanup.py 137-139: the task is cancelled, at the sleep or at an await of the
\* cycle; CancelledError is not an Exception, and the loop breaks without a
\* result of the cycle.
CleanupCancel ==
    /\ cl.pc # "cancelled"
    /\ cl' = [IdleCleanup EXCEPT !.pc = "cancelled", !.ran = <<"cancelled">>]
    /\ UNCHANGED <<jobs, nextJobId, statusCache, fileCache, stream, lastDelivered,
                   pel, files, up, rd, wk, responses, faults, now>>

\* run_periodic_cleanup: the cycles of SpecRetention with a failing database
\* call and the cancellation of the task.
NextScheduler ==
    \/ NextRetention
    \/ CleanupRaise
    \/ CleanupCancel

SpecScheduler == Init /\ [][NextScheduler]_vars

\* ----------------------------------------------------------- redelivery
\* process_message is handed an entry of the pending list a second time: the
\* entry was delivered to a worker process that died before the XACK, and it is
\* claimed for a running worker (XCLAIM or XAUTOCLAIM; the run loop never asks for
\* one itself). The second run starts like the first, with the Processing update
\* (worker_simulator.py 126-141).
WorkerRedeliver(w, i) ==
    /\ wk[w].pc = "poll"
    /\ i \in pel
    /\ \A v \in Workers : wk[v].msg = i => wk[v].pc = "crashed"
    /\ \E v \in Workers : wk[v].msg = i
    /\ wk' = [wk EXCEPT ![w] = [IdleWorker EXCEPT !.pc = "update", !.msg = i,
                                    !.phase = "processing"]]
    /\ UNCHANGED <<jobs, nextJobId, statusCache, fileCache, stream, lastDelivered,
                   pel, files, up, rd, responses, faults, now, cl>>

\* The pipeline without failing dependency calls, in which one worker process may
\* die while it holds an entry and the entry is then processed a second time.
NextRedelivery ==
    \/ UploadStep
    \/ WorkerStep(Workers)
    \/ \E w \in CrashWorkers : WorkerCrash(w)
    \/ \E w \in LiveWorkers, i \in 1..MaxJobs : WorkerRedeliver(w, i)

SpecRedelivery == Init /\ [][NextRedelivery]_vars

\* ------------------------------------------------------- cache failures
\* The failing cache calls of upload_file: the fingerprint lookup, the backfill and
\* the write of the new job's status.
UploadCacheFault ==
    \/ \E u \in Uploaders : UploadCacheLookupFail(u)
    \/ \E u \in Uploaders : UploadBackfillFail(u)
    \/ \E u \in Uploaders : UploadCacheJobFail(u)

\* Uploads and status queries with failing cache calls, and one worker that
\* completes jobs so that every lookup path is taken. The store and the stream do
\* not fail.
NextCacheFaults ==
    \/ UploadStep
    \/ UploadCacheFault
    \/ WorkerStep(StatusWorkers)
    \/ ReadStep

SpecCacheFaults == Init /\ [][NextCacheFaults]_vars

\* ================================================================ claims
\* The status transitions the job lifecycle allows.
AllowedTransitions ==
    {<<"pending", "processing">>, <<"processing", "completed">>,
     <<"processing", "failed">>}

\* The stream positions that hold an entry of job id.
EntriesOfJob(id) == {i \in 1..Len(stream) : stream[i].job_id = id}

\* The stream positions that hold an entry of fingerprint h.
EntriesOfHash(h) == {i \in 1..Len(stream) : stream[i].file_hash = h}

\* C1: the stored status of a job only ever changes along Pending->Processing,
\* Processing->Completed or Processing->Failed, also in runs in which the scan, the
\* result-cache write or the XACK raises.
C1_OnlyLifecycleTransitions ==
    [][\A id \in DOMAIN jobs :
          jobs'[id].status # jobs[id].status
              => <<jobs[id].status, jobs'[id].status>> \in AllowedTransitions]_vars

\* C2: once a job's stored status is Completed or Failed, its results and its
\* error_message never change again.
C2_TerminalFieldsImmutable ==
    [][\A id \in DOMAIN jobs :
          jobs[id].status \in {"completed", "failed"}
              => /\ jobs'[id].results = jobs[id].results
                 /\ jobs'[id].error_message = jobs[id].error_message]_vars

\* C3: a job row has results only if its status is Completed and an error detail
\* only if its status is Failed.
C3_ResultsOnlyCompletedErrorOnlyFailed ==
    \A id \in DOMAIN jobs :
        /\ jobs[id].results # NoResults => jobs[id].status = "completed"
        /\ jobs[id].error_message # NoError => jobs[id].status = "failed"

\* The fingerprint cache holds results for h.
CacheHasResults(h) == h \in DOMAIN fileCache /\ fileCache[h] # NoResults

\* The store holds a Completed job with results for h.
StoreHasResults(h) ==
    \E id \in DOMAIN jobs :
        /\ jobs[id].file_hash = h
        /\ jobs[id].status = "completed"
        /\ jobs[id].results # NoResults

Sequential(i, j) ==
    /\ i < j
    /\ responses[j].started >= i
    /\ responses[i].file_hash = responses[j].file_hash
    /\ responses[i].status # "error"
    /\ responses[j].status # "error"

ResponsesOfJob(id) == {i \in 1..Len(responses) : responses[i].job_id = id}

\* The job a response returned is a Completed row of the response's fingerprint
\* with the given results, no other response returned it, and no queue entry
\* carries it.
OneCompletedJobNoEntry(resp, results) ==
    /\ resp.status = "completed"
    /\ resp.results = results
    /\ resp.job_id \in DOMAIN jobs
    /\ jobs[resp.job_id] = JobRow(resp.file_hash, "completed", results)
    /\ Cardinality(ResponsesOfJob(resp.job_id)) = 1
    /\ EntriesOfJob(resp.job_id) = {}

\* C6: an upload that finds fingerprint-cache results creates exactly one new
\* Completed job with those results, publishes no queue entry and never runs the
\* store's completed-job-by-hash lookup: its whole sequence of calls is the cache
\* lookup followed by create_job.
C6_CacheHitPath ==
    /\ \A u \in Uploaders :
          up[u].cached # NoResults
              => /\ up[u].pc = "create_cached"
                 /\ up[u].ops = <<"get_file_results">>
                 /\ up[u].job_id = 0
    /\ \A i \in 1..Len(responses) :
          responses[i].cached # NoResults
              => /\ responses[i].ops = <<"get_file_results", "create_job">>
                 /\ OneCompletedJobNoEntry(responses[i], responses[i].cached)

\* C6 witness: an upload returned from the cache-hit path.
C6_Witness ==
    \E i \in 1..Len(responses) :
        /\ responses[i].cached # NoResults
        /\ responses[i].status = "completed"
        /\ responses[i].job_id \in DOMAIN jobs

\* The calls of an upload whose cache lookup missed and whose store lookup hit.
StoreHitOps ==
    {<<g, "get_completed_job_by_hash", s, "create_job">> :
        g \in {"get_file_results", "get_file_results_failed"},
        s \in {"set_file_results", "set_file_results_failed"}}

\* C7: when the cache misses and the store holds a Completed job with results for
\* the fingerprint, the upload writes those results into the fingerprint cache and
\* only then creates exactly one new Completed job with those results; it publishes
\* no queue entry.
C7_StoreHitPath ==
    /\ [](\A i \in 1..Len(responses) :
            (responses[i].cached = NoResults /\ responses[i].existing # NoResults)
                => /\ responses[i].ops \in StoreHitOps
                   /\ OneCompletedJobNoEntry(responses[i], responses[i].existing))
    /\ [][\A u \in Uploaders :
            /\ (up[u].pc = "db_lookup" /\ up'[u].pc # "db_lookup"
                    /\ StoreHasResults(up[u].file_hash))
                 => /\ up'[u].pc = "backfill"
                    /\ up'[u].existing # NoResults
                    /\ jobs' = jobs /\ stream' = stream
            /\ (up[u].pc = "backfill" /\ up'[u].pc # "backfill")
                 => /\ up'[u].pc = "create_dedup"
                    /\ jobs' = jobs /\ stream' = stream
                    /\ faults' = faults
                         => /\ up[u].file_hash \in DOMAIN fileCache'
                            /\ fileCache'[up[u].file_hash] = up[u].existing
            /\ (up'[u].pc = "create_dedup" /\ up[u].pc # "create_dedup")
                 => up[u].pc = "backfill"
            /\ (up[u].pc = "create_dedup" /\ up'[u].pc # "create_dedup")
                 => /\ DOMAIN jobs' = DOMAIN jobs \cup {nextJobId}
                    /\ jobs'[nextJobId] =
                          JobRow(up[u].file_hash, "completed", up[u].existing)
                    /\ stream' = stream]_vars

\* C7 witness: an upload missed the cache, found the Completed job in the store,
\* wrote its results into the cache and returned its own Completed job.
C7_Witness ==
    \E i \in 1..Len(responses) :
        /\ responses[i].cached = NoResults
        /\ responses[i].existing # NoResults
        /\ responses[i].ops =
              <<"get_file_results", "get_completed_job_by_hash",
                "set_file_results", "create_job">>
        /\ responses[i].file_hash \in DOMAIN fileCache
        /\ fileCache[responses[i].file_hash] = responses[i].existing

\* The calls of an upload that found no completed results and returned its job.
MissOps ==
    {<<g, "get_completed_job_by_hash", "create_job", s, "publish_job">> :
        g \in {"get_file_results", "get_file_results_failed"},
        s \in {"set_job_status", "set_job_status_failed"}}

\* C8: an upload whose cache and store lookups both found no completed results
\* creates exactly one new Pending job and, when it returns that job, has published
\* exactly one queue entry carrying the job's id. The job row is in the store before
\* the entry is published: every stream entry, and so every entry a worker holds,
\* names an existing job row.
C8_MissPath ==
    /\ \A i \in 1..Len(stream) :
          /\ stream[i].job_id \in DOMAIN jobs
          /\ jobs[stream[i].job_id].file_hash = stream[i].file_hash
    /\ \A id \in DOMAIN jobs : Cardinality(EntriesOfJob(id)) <= 1
    /\ \A w \in Workers :
          wk[w].msg # 0 => /\ wk[w].msg \in 1..Len(stream)
                           /\ EntryOf(w).job_id \in DOMAIN jobs
    /\ \A u \in Uploaders :
          up[u].pc \in {"cache_job", "publish"}
              => /\ up[u].cached = NoResults /\ up[u].existing = NoResults
                 /\ up[u].job_id \in DOMAIN jobs
                 /\ jobs[up[u].job_id] =
                        JobRow(up[u].file_hash, "pending", NoResults)
                 /\ EntriesOfJob(up[u].job_id) = {}
    /\ \A i \in 1..Len(responses) :
          (/\ responses[i].cached = NoResults
           /\ responses[i].existing = NoResults
           /\ responses[i].status # "error")
              => /\ responses[i].status = "pending"
                 /\ responses[i].results = NoResults
                 /\ responses[i].ops \in MissOps
                 /\ responses[i].job_id \in DOMAIN jobs
                 /\ jobs[responses[i].job_id].file_hash = responses[i].file_hash
                 /\ Cardinality(ResponsesOfJob(responses[i].job_id)) = 1
                 /\ Cardinality(EntriesOfJob(responses[i].job_id)) = 1

\* C8 witness: an upload returned a Pending job and a worker holds its entry.
C8_Witness ==
    \E i \in 1..Len(responses), w \in Workers :
        /\ responses[i].status = "pending"
        /\ wk[w].msg # 0
        /\ EntryOf(w).job_id = responses[i].job_id
        /\ responses[i].job_id \in DOMAIN jobs

\* The JobStatus values (models.py 11-16).
Statuses == {"pending", "processing", "completed", "failed"}

\* C9: get_job_status reads the job-status cache first and returns a hit as it is;
\* on a miss it reads the store, then writes the row into the cache and returns it;
\* for an id that neither holds it answers NotFound, with no job data, and caches
\* nothing: the cache never holds an id the store does not hold.
C9_CacheAsideAndNotFound ==
    /\ [](/\ \A id \in DOMAIN statusCache : id \in DOMAIN jobs
          /\ \A r \in Readers :
                /\ rd[r].pc = "cache_set"
                     => /\ rd[r].job_id \in DOMAIN jobs
                        /\ rd[r].data.status \in Statuses
                /\ rd[r].resp.kind = "not_found"
                     => rd[r].resp.data = NoData
                /\ rd[r].resp.kind = "job"
                     => /\ rd[r].resp.job_id \in DOMAIN jobs
                        /\ rd[r].resp.data.status \in Statuses)
    /\ [][\A r \in Readers :
            /\ (rd[r].pc = "idle" /\ rd'[r] # rd[r])
                 => /\ statusCache' = statusCache /\ jobs' = jobs
                    /\ \/ /\ rd'[r].pc = "db_get"
                          /\ faults' # faults \/ rd'[r].job_id \notin DOMAIN statusCache
                       \/ /\ rd'[r].pc = "idle"
                          /\ rd'[r].resp.job_id \in DOMAIN statusCache
                          /\ rd'[r].resp =
                                [kind |-> "job", source |-> "cache",
                                 data |-> statusCache[rd'[r].resp.job_id],
                                 job_id |-> rd'[r].resp.job_id]
            /\ (rd[r].pc = "db_get" /\ rd'[r] # rd[r])
                 => /\ statusCache' = statusCache /\ jobs' = jobs
                    /\ IF rd[r].job_id \in DOMAIN jobs
                       THEN /\ rd'[r].pc = "cache_set"
                            /\ rd'[r].job_id = rd[r].job_id
                            /\ rd'[r].data.status = jobs[rd[r].job_id].status
                            /\ rd'[r].data.results = jobs[rd[r].job_id].results
                       ELSE /\ rd'[r].pc = "idle"
                            /\ rd'[r].resp =
                                  [kind |-> "not_found", source |-> "none",
                                   data |-> NoData, job_id |-> rd[r].job_id]
            /\ (rd[r].pc = "cache_set" /\ rd'[r] # rd[r])
                 => /\ rd'[r].pc = "idle"
                    /\ rd'[r].resp =
                          [kind |-> "job", source |-> "store",
                           data |-> rd[r].data, job_id |-> rd[r].job_id]
                    /\ faults' = faults
                         => /\ rd[r].job_id \in DOMAIN statusCache'
                            /\ statusCache'[rd[r].job_id] = rd[r].data]_vars

\* C9 witness: a request for an id that no upload created was answered NotFound
\* while the cache holds the status of another job.
C9_Witness ==
    \E r \in Readers :
        /\ rd[r].resp.kind = "not_found"
        /\ rd[r].resp.job_id = UnknownId
        /\ DOMAIN statusCache # {}

\* The worker transitions and the get_job_status calls on job id have all finished.
Quiescent(id) ==
    /\ \A w \in Workers :
          wk[w].msg # 0 /\ EntryOf(w).job_id = id
              => wk[w].pc \notin {"update", "invalidate"}
    /\ \A r \in Readers : rd[r].pc = "idle" \/ rd[r].job_id # id

\* C10: once a worker's status transition of a job (store update, then cache
\* delete) and every get_job_status call in flight for it have finished, a cached
\* status of the job, if there is one, equals the status in the store.
C10_NoStaleStatusAfterTransition ==
    \A id \in DOMAIN statusCache :
        (id \in DOMAIN jobs /\ Quiescent(id))
            => statusCache[id].status = jobs[id].status

\* A worker process that is running holds stream entry i.
HeldByRunningWorker(i) ==
    \E w \in Workers : wk[w].msg = i /\ wk[w].pc \notin {"crashed", "stopped"}

\* The stream entries that were delivered and acknowledged.
Acknowledged == (1..lastDelivered) \ pel

\* C11: when the worker dies, or the cache delete fails, between the store update
\* of a status transition and the delete of the cached status, the status cache is
\* left without an entry for the job or with one that equals the store: outside a
\* transition that is still going to delete the entry, a cached status never
\* differs from the stored one.
C11_CacheColdNeverWrong ==
    \A id \in DOMAIN statusCache :
        (/\ id \in DOMAIN jobs
         /\ ~\E w \in Workers : /\ wk[w].msg # 0
                                /\ EntryOf(w).job_id = id
                                /\ wk[w].pc = "invalidate")
            => statusCache[id].status = jobs[id].status

\* C12: when the scan of a consumed entry fails, the worker sets the job Failed
\* with the error detail and acknowledges the entry: once the worker is done with
\* it, the entry is not on the group's pending list.
C12_ScanFailureAcknowledged ==
    \A i \in 1..lastDelivered :
        (/\ jobs[stream[i].job_id].status = "failed"
         /\ jobs[stream[i].job_id].error_message = "scan_error"
         /\ ~HeldByRunningWorker(i))
            => i \notin pel

\* C13: an entry is acknowledged only after the Completed update of its job is in
\* the store: the job of an acknowledged entry is never Pending or Processing, the
\* step that takes an entry off the pending list finds its job Completed, and no
\* failing call (a stream read error among them) acknowledges anything.
C13_AckOnlyAfterCompleted ==
    /\ [](\A i \in Acknowledged :
            jobs[stream[i].job_id].status \notin {"pending", "processing"})
    /\ [][/\ \A i \in pel :
                i \notin pel' => /\ jobs[stream[i].job_id].status = "completed"
                                 /\ jobs[stream[i].job_id].results # NoResults
                                 /\ jobs' = jobs
          /\ faults' # faults => pel' = pel /\ lastDelivered' = lastDelivered]_vars

\* C13 witness: an entry has been acknowledged and its job is Completed.
C13_Witness ==
    \E i \in Acknowledged : jobs[stream[i].job_id].status = "completed"

\* C14: an entry that was consumed and never acknowledged, and that no running
\* worker holds any more (its worker died, or processing failed before the XACK),
\* is eligible for delivery again: it is among the entries the group's next read
\* can hand out.
C14_UnackedEntryRedeliverable ==
    \A i \in pel : ~HeldByRunningWorker(i) => i > lastDelivered

\* C15: whatever fails inside process_message, the failure of the Failed update
\* included, the run loop goes on polling: no worker's loop ever ends.
C15_LoopNeverHalts == \A w \in Workers : wk[w].pc # "stopped"

\* C16: every job created Pending eventually reaches Completed or Failed, while
\* one worker keeps running fairly, also when another worker dies after it
\* consumed the job's entry and before it acknowledged it.
C16_PendingJobEventuallyTerminal ==
    \A id \in JobIds :
        [](id \in DOMAIN jobs
            => <>(id \in DOMAIN jobs /\ jobs[id].status \in {"completed", "failed"}))

\* The canonical paths that hold content.
CanonicalPaths == DOMAIN files \ TempPaths

\* C17: a save returns the fingerprint of its content, which names the canonical
\* location, every time; a save of a content whose canonical location already
\* holds it writes nothing there and removes its own temporary file, so that one
\* artifact of the content is left. Temporary files exist only while their save
\* is running.
C17_SecondSaveWritesNothing ==
    /\ [](\A u \in Requests :
            /\ TempPath(u) \in DOMAIN files
                 <=> up[u].pc \in {"write", "verify", "move"}
            /\ up[u].save # "none" => up[u].file_hash = Sha256(up[u].content))
    /\ [][\A u \in Requests :
            (/\ up[u].pc = "write" /\ up'[u].pc # "write"
             /\ faults' = faults
             /\ Sha256(up[u].content) \in DOMAIN files)
                => /\ up'[u].pc = "cache_lookup"
                   /\ up'[u].save = "existed"
                   /\ up'[u].file_hash = Sha256(up[u].content)
                   /\ files' = Drop(files, TempPath(u))
                   /\ files'[Sha256(up[u].content)] = files[Sha256(up[u].content)]]_vars

\* C17 witness: a second save of a content, started after the first upload of it
\* had returned, found the canonical location and returned the same fingerprint,
\* with the content there and no temporary file left.
C17_Witness ==
    \E u \in Requests :
        /\ up[u].save = "existed"
        /\ up[u].pc = "cache_lookup"
        /\ \E i \in 1..up[u].started :
              /\ responses[i].file_hash = up[u].file_hash
              /\ responses[i].status = "pending"
        /\ up[u].file_hash \in DOMAIN files
        /\ files[up[u].file_hash] = FileBytes(up[u].content)
        /\ DOMAIN files \cap TempPaths = {}

\* C18: when the digest read back from the temporary file differs from the
\* streaming digest, the save fails with the corruption error: the step removes
\* the temporary file and touches no canonical location, and the request ends
\* with an error, without a job and without a queue entry.
C18_CorruptionFailsCleanly ==
    /\ [](\A i \in 1..Len(responses) :
            responses[i].ops = <<"corruption_error">>
                => /\ responses[i].status = "error"
                   /\ responses[i].job_id = 0
                   /\ responses[i].results = NoResults)
    /\ [][\A u \in Requests :
            (/\ up[u].pc = "verify" /\ up'[u].pc # "verify"
             /\ faults' = faults
             /\ DigestOf(files[TempPath(u)]) # up[u].file_hash)
                => /\ up'[u].pc = "idle"
                   /\ files' = Drop(files, TempPath(u))
                   /\ CanonicalPaths' = CanonicalPaths
                   /\ jobs' = jobs /\ nextJobId' = nextJobId /\ stream' = stream
                   /\ Len(responses') = Len(responses) + 1
                   /\ responses'[Len(responses')].ops = <<"corruption_error">>]_vars

\* C18 witness: a save failed with the corruption error; nothing is at the
\* canonical location of its digest, no temporary file is left, and no job and
\* no queue entry exist.
C18_Witness ==
    \E i \in 1..Len(responses) :
        /\ responses[i].ops = <<"corruption_error">>
        /\ responses[i].file_hash \notin DOMAIN files
        /\ DOMAIN files \cap TempPaths = {}
        /\ DOMAIN jobs = {}
        /\ stream = <<>>

\* C19: of two concurrent saves of one content only one renames its temporary
\* file onto the canonical path: a rename never lands on a canonical path that
\* already holds content.
C19_OnlyOneSaveCommits ==
    [][\A u \in Requests :
        (up[u].pc = "move" /\ up'[u].pc # "move")
            => up[u].file_hash \notin DOMAIN files]_vars

\* C20: a canonical location that exists holds the complete bytes of a content,
\* and the digest of those bytes is the fingerprint that names the location;
\* partly written or damaged bytes are never at a canonical location.
C20_CanonicalContentComplete ==
    \A path \in CanonicalPaths :
        /\ path \in Hashes
        /\ DigestOf(files[path]) = path
        /\ \E c \in Contents : Sha256(c) = path /\ files[path] = FileBytes(c)

\* C20 witness: a canonical location holds content while a running save has
\* partly written or damaged bytes in its temporary file.
C20_Witness ==
    \E path \in CanonicalPaths, u \in Requests :
        /\ up[u].pc \in {"write", "verify"}
        /\ files[TempPath(u)] # <<>>
        /\ files[TempPath(u)] # FileBytes(up[u].content)
        /\ DigestOf(files[path]) = path

\* C21: when the upload timeout fires during a save, the save ends with the
\* timeout error: the step that raises it has already removed the temporary
\* file, leaves every canonical location as it was, and the request ends
\* without a job record and without a queue entry.
C21_TimeoutFailsCleanly ==
    /\ [](\A i \in 1..Len(responses) :
            responses[i].ops = <<"upload_timeout">>
                => /\ responses[i].status = "error"
                   /\ responses[i].job_id = 0
                   /\ responses[i].results = NoResults)
    /\ [][\A u \in Requests :
            (/\ up[u].pc \in {"write", "verify"}
             /\ up'[u].pc \notin {"write", "verify", "move", "cache_lookup"}
             /\ faults' # faults)
                => /\ up'[u].pc = "idle"
                   /\ TempPath(u) \notin DOMAIN files'
                   /\ CanonicalPaths' = CanonicalPaths
                   /\ \A h \in CanonicalPaths : files'[h] = files[h]
                   /\ jobs' = jobs /\ nextJobId' = nextJobId /\ stream' = stream
                   /\ Len(responses') = Len(responses) + 1
                   /\ responses'[Len(responses')].ops = <<"upload_timeout">>]_vars

\* C21 witness: a save timed out and its request has returned; its temporary file is
\* gone, nothing is at a canonical location, and no job and no queue entry
\* exist.
C21_Witness ==
    \E i \in 1..Len(responses) :
        /\ responses[i].ops = <<"upload_timeout">>
        /\ DOMAIN files = {}
        /\ DOMAIN jobs = {}
        /\ stream = <<>>
        /\ \A u \in Requests : up[u].pc = "idle"

\* The outcomes of should_accept_upload that requests have seen so far.
Admissions ==
    {a \in {responses[i].admission : i \in 1..Len(responses)}
                \cup {up[u].admission : u \in Requests} : a.status # "none"}

\* C22: should_accept_upload refuses, with the capacity message, exactly when the
\* measured tier is Emergency; it accepts with the warning annotation at the
\* Critical tier and accepts plainly at the Warning and Healthy tiers. With the
\* default thresholds the tier is Emergency from 95 percent on, so that at 96
\* percent the upload is refused.
C22_AdmissionFollowsTier ==
    \A a \in Admissions :
        a.status \in {"emergency", "critical", "warning", "healthy"}
            => /\ a.status = "emergency" <=> a.percent_used >= 95
               /\ a.status = "critical"
                    <=> (a.percent_used >= 90 /\ a.percent_used < 95)
               /\ a.status = "warning"
                    <=> (a.percent_used >= 85 /\ a.percent_used < 90)
               /\ ~a.accept <=> a.status = "emergency"
               /\ a.status = "emergency"
                    => a.message = <<"uploads_disabled", a.percent_used>>
               /\ a.status = "critical"
                    => a.message = <<"warning", a.percent_used>>
               /\ a.status \in {"warning", "healthy"} => a.message = <<"ok">>
               /\ a.percent_used = 96
                    => ~a.accept /\ a.message = <<"uploads_disabled", 96>>

\* C22 witness: one upload was refused at 96 percent and another was accepted
\* with the warning annotation at the Critical tier.
C22_Witness ==
    /\ \E a \in Admissions : a.percent_used = 96 /\ ~a.accept
    /\ \E a \in Admissions :
            a.status = "critical" /\ a.accept /\ a.message[1] = "warning"

\* C23: an upload attempted at the Emergency tier is refused with the capacity
\* error before any byte is stored: the step that answers it leaves stored
\* contents, temporary files, job records, cache entries and queue entries as
\* they were, and the answer carries no job.
C23_RefusedUploadChangesNothing ==
    /\ [](\A i \in 1..Len(responses) :
            responses[i].admission.status = "emergency"
                => /\ responses[i].ops = <<"insufficient_storage">>
                   /\ responses[i].status = "error"
                   /\ responses[i].job_id = 0)
    /\ [](\A u \in Requests : up[u].admission.status # "emergency")
    /\ [][(/\ Len(responses') = Len(responses) + 1
           /\ responses'[Len(responses')].admission.status = "emergency")
            => /\ files' = files
               /\ jobs' = jobs /\ nextJobId' = nextJobId
               /\ statusCache' = statusCache /\ fileCache' = fileCache
               /\ stream' = stream /\ pel' = pel]_vars

\* C23 witness: an upload was refused at the Emergency tier after an earlier
\* upload had been stored, recorded and queued.
C23_Witness ==
    /\ Len(responses) = 2
    /\ responses[2].admission.status = "emergency"
    /\ responses[2].ops = <<"insufficient_storage">>
    /\ responses[1].job_id \in DOMAIN jobs
    /\ responses[1].file_hash \in DOMAIN files
    /\ Len(stream) = 1

\* C24: the retention controller deletes stored content only when no unexpired
\* job references it: the deleting step of a cleanup cycle, at any tier, leaves
\* the content of every job that has not passed its expiration (every Pending
\* job among them) at its canonical location.
C24_UnexpiredContentKept ==
    [][(cl.pc = "delete" /\ cl'.pc = "sleep")
        => \A id \in DOMAIN jobs :
              (/\ ~(expires_at(jobs[id]) < now)
               /\ jobs[id].file_hash \in DOMAIN files)
                  => jobs[id].file_hash \in DOMAIN files']_vars

\* C25: a cleanup cycle at the Emergency tier deletes content only for jobs
\* created within the last 12 hours: every content its deleting step removes is
\* referenced by a job of that window, and all other content stays.
C25_EmergencyDeletesTwelveHourWindowOnly ==
    [][(cl.pc = "delete" /\ cl'.pc = "sleep" /\ cl.status = "emergency")
        => \A h \in DOMAIN files \ DOMAIN files' :
              \E id \in DOMAIN jobs :
                  /\ jobs[id].file_hash = h
                  /\ now - jobs[id].created_at <= Ticks(Hours(12))]_vars

\* C26: a cleanup cycle at the Healthy tier deletes every job record that has
\* passed its expiration and the stored content of those jobs: when the cycle
\* ends, no content remains at a canonical location that only the deleted,
\* expired jobs referenced.
C26_HealthyDeletesExpiredContent ==
    [][/\ (cl.pc = "expired" /\ cl'.pc = "old_hashes")
            => \A id \in DOMAIN jobs' : ~(expires_at(jobs'[id]) < now)
       /\ (cl.pc = "delete" /\ cl'.pc = "sleep" /\ cl.status = "healthy")
            => \A h \in cl.deleted_jobs :
                  (\A id \in DOMAIN jobs' : jobs'[id].file_hash # h)
                      => h \notin DOMAIN files']_vars

\* The tiers get_storage_stats can measure.
Tiers == {"emergency", "critical", "warning", "healthy"}

\* C27: in each cleanup cycle that measures a tier, exactly one retention branch
\* runs, and it is the branch of the tier measured in that cycle, whatever
\* earlier cycles did: the cycle's trace holds one branch, the measured one; job
\* rows are deleted only in the Healthy branch; and the fingerprints to delete
\* are selected with the window of the measured tier (0, 1 and 3 days, and the
\* retention period).
C27_OneBranchOfMeasuredTier ==
    /\ [](cl.status \in Tiers => cl.ran = <<"orphans", "stats", cl.status>>)
    /\ [](cl.pc \in {"expired", "old_hashes", "delete"} => cl.status \in Tiers)
    /\ [][/\ cl.pc = "expired" => cl.status = "healthy"
          /\ (cl.pc # "expired" /\ cl' # cl) => jobs' = jobs
          /\ (cl.pc = "old_hashes" /\ cl'.pc = "delete")
               => cl'.old_hashes =
                    {jobs[id].file_hash :
                        id \in {i \in DOMAIN jobs :
                            now - jobs[i].created_at >
                                (IF cl.status = "emergency" THEN 0
                                 ELSE IF cl.status = "critical" THEN Ticks(Days(1))
                                 ELSE IF cl.status = "warning" THEN Ticks(Days(3))
                                 ELSE Ticks(Days(7)))}}]_vars

\* C27 witness: a cycle at the Warning tier has ended after its Warning branch,
\* which selected nothing, although a cycle at a higher tier had run before it
\* and had deleted the content of a job younger than 3 days.
C27_Witness ==
    /\ cl.pc = "sleep"
    /\ cl.status = "warning"
    /\ cl.ran = <<"orphans", "stats", "warning">>
    /\ cl.old_hashes = {}
    /\ \E id \in DOMAIN jobs :
           /\ jobs[id].file_hash \notin DOMAIN files
           /\ now - jobs[id].created_at <= Ticks(Days(3))

\* C28: a cleanup cycle at the Critical tier deletes only content that at least
\* one job created more than 1 day ago references, and a cycle at the Warning
\* tier only content that at least one job created more than 3 days ago
\* references; content whose jobs are all younger than the window stays, and no
\* step of either branch deletes a job record.
C28_TierWindowsBoundDeletion ==
    [][/\ (cl.pc = "delete" /\ cl'.pc = "sleep" /\ cl.status = "critical")
            => \A h \in DOMAIN files \ DOMAIN files' :
                  \E id \in DOMAIN jobs :
                      /\ jobs[id].file_hash = h
                      /\ now - jobs[id].created_at > Ticks(Days(1))
       /\ (cl.pc = "delete" /\ cl'.pc = "sleep" /\ cl.status = "warning")
            => \A h \in DOMAIN files \ DOMAIN files' :
                  \E id \in DOMAIN jobs :
                      /\ jobs[id].file_hash = h
                      /\ now - jobs[id].created_at > Ticks(Days(3))
       /\ (cl.status \in {"critical", "warning"} /\ cl' # cl /\ cl.pc # "sleep")
            => DOMAIN jobs' = DOMAIN jobs]_vars

\* C28 witness: a cycle at the Critical tier has ended; it deleted the content of
\* a job older than 1 day and left the content of a younger job, and both job
\* records are still there.
C28_Witness ==
    /\ cl.pc = "sleep"
    /\ cl.status = "critical"
    /\ \E i, j \in DOMAIN jobs :
           /\ now - jobs[i].created_at > Ticks(Days(1))
           /\ cl.old_hashes = {jobs[i].file_hash}
           /\ jobs[i].file_hash \notin DOMAIN files
           /\ now - jobs[j].created_at <= Ticks(Days(1))
           /\ jobs[j].file_hash \in DOMAIN files

\* C29: every cleanup cycle reclaims orphaned temporary files first, at every
\* tier: the first step of a cycle is the orphan pass, which removes the
\* temporary files older than the threshold and nothing else and measures
\* nothing; the tier is measured only after it, and a tier branch runs only
\* after both.
C29_OrphanPassFirst ==
    /\ [](cl.pc # "sleep" => Len(cl.ran) >= 1 /\ cl.ran[1] = "orphans")
    /\ [](cl.pc \in {"expired", "old_hashes", "delete"}
            => /\ Len(cl.ran) = 3
               /\ cl.ran[1] = "orphans" /\ cl.ran[2] = "stats"
               /\ cl.ran[3] \in Tiers)
    /\ [][/\ (cl.pc = "sleep" /\ cl' # cl)
               => /\ cl'.pc = "stats" /\ cl'.status = "none"
                  /\ cl'.ran = <<"orphans">>
                  /\ DOMAIN files' =
                       DOMAIN files \ {t \in TempPaths :
                           /\ t \in DOMAIN files
                           /\ now - getmtime(t)
                                > Ticks(Hours(cleanup_orphaned_files_hours))}
                  /\ jobs' = jobs
          /\ (cl'.status # cl.status /\ cl'.status # "none")
               => cl.pc = "stats" /\ cl.ran = <<"orphans">>]_vars

\* C29 witness: a cycle at the Emergency tier has ended; its orphan pass removed
\* a temporary file before the tier was measured.
C29_Witness ==
    /\ cl.pc = "sleep"
    /\ cl.status = "emergency"
    /\ cl.ran = <<"orphans", "stats", "emergency">>
    /\ cl.removed # {}
    /\ cl.removed \cap DOMAIN files = {}

\* C30: orphan reclamation beside saves in flight never deletes the temporary
\* file of a save that is still in progress: the pass removes only files with
\* the temporary prefix whose age is above the threshold, and a save, which the
\* upload timeout bounds, keeps its temporary file through every step of a
\* cleanup cycle.
C30_ReclaimSparesSavesInFlight ==
    /\ [](\A u \in Requests :
            up[u].pc \in SavePcs => TempPath(u) \in DOMAIN files)
    /\ [][/\ cl' # cl
               => \A u \in Requests :
                     up[u].pc \in SavePcs
                         => /\ TempPath(u) \in DOMAIN files'
                            /\ files'[TempPath(u)] = files[TempPath(u)]
                            /\ up'[u] = up[u]
          /\ (cl.pc = "sleep" /\ cl' # cl)
               => \A t \in DOMAIN files \ DOMAIN files' :
                     /\ t \in TempPaths
                     /\ now - getmtime(t)
                          > Ticks(Hours(cleanup_orphaned_files_hours))]_vars

\* C30 witness: an orphan pass has just removed the temporary file of a killed
\* save while another save, opened a tick ago, is in progress and has its
\* temporary file.
C30_Witness ==
    /\ cl.pc = "stats"
    /\ cl.removed # {}
    /\ \E u \in Requests :
           /\ up[u].pc \in SavePcs
           /\ now - up[u].opened = Ticks(upload_timeout_seconds)
           /\ TempPath(u) \in DOMAIN files
           /\ TempPath(u) \notin cl.removed

\* The cache calls of upload_file that failed.
FailedCacheOps ==
    {"get_file_results_failed", "set_file_results_failed", "set_job_status_failed"}

\* The calls of a request's log that are in a set.
OpsIn(ops, S) == {k \in 1..Len(ops) : ops[k] \in S}

\* C31: a cache failure during a status query or an upload does not fail the
\* request. A failing cache read is taken as a miss: the status query goes on to
\* read the store and the upload goes on to the lookup by fingerprint in the
\* store, and each is answered from what the store holds. A failing cache write
\* is ignored: the request goes on as after a successful write, is answered with
\* the same job, and the cache is left as it was.
C31_CacheFailureDegrades ==
    /\ [](\A i \in 1..Len(responses) :
            OpsIn(responses[i].ops, FailedCacheOps) # {}
                => /\ responses[i].status \in {"pending", "completed"}
                   /\ responses[i].job_id \in DOMAIN jobs
                   /\ responses[i].ops \in StoreHitOps \cup MissOps
                   /\ responses[i].ops \in StoreHitOps
                        => /\ responses[i].status = "completed"
                           /\ responses[i].results = responses[i].existing
                           /\ responses[i].existing # NoResults
                   /\ responses[i].ops \in MissOps
                        => /\ responses[i].status = "pending"
                           /\ EntriesOfJob(responses[i].job_id) # {})
    /\ [](\A r \in Readers : rd[r].resp.kind \in {"none", "job", "not_found"})
    /\ [][/\ \A u \in Uploaders :
               (faults' # faults /\ up'[u] # up[u])
                   => /\ Len(responses') = Len(responses)
                      /\ statusCache' = statusCache /\ fileCache' = fileCache
                      /\ jobs' = jobs
                      /\ up[u].pc = "cache_lookup" => up'[u].pc = "db_lookup"
                      /\ up[u].pc = "backfill" => up'[u].pc = "create_dedup"
                      /\ up[u].pc = "cache_job" => up'[u].pc = "publish"
          /\ \A r \in Readers :
               /\ (faults' # faults /\ rd'[r] # rd[r])
                    => /\ statusCache' = statusCache /\ jobs' = jobs
                       /\ rd[r].pc = "idle"
                            => rd'[r].pc = "db_get" /\ rd'[r].resp.kind = "none"
                       /\ rd[r].pc = "cache_set"
                            => /\ rd'[r].pc = "idle"
                               /\ rd'[r].resp =
                                     [kind |-> "job", source |-> "store",
                                      data |-> rd[r].data,
                                      job_id |-> rd[r].job_id]
               /\ (rd[r].pc = "db_get" /\ rd'[r] # rd[r]
                        /\ rd[r].job_id \in DOMAIN jobs)
                    => /\ rd'[r].pc = "cache_set"
                       /\ rd'[r].data = CacheData(jobs[rd[r].job_id])]_vars

\* C31 witness: the cache read of an upload failed; the upload found the
\* Completed job in the store and was answered with a Completed job of its own
\* that carries the stored results.
C31_Witness ==
    \E i \in 1..Len(responses) :
        /\ responses[i].ops[1] = "get_file_results_failed"
        /\ responses[i].status = "completed"
        /\ responses[i].deduplication
        /\ responses[i].job_id \in DOMAIN jobs
        /\ jobs[responses[i].job_id].results = responses[i].results
        /\ responses[i].results # NoResults

\* C32: the cache is never the sole source of a write decision: whenever an
\* upload writes a job record to the store, the request has consulted the store
\* (the lookup by fingerprint) before, so that no record takes its status or its
\* results from a cache entry alone.
C32_NoWriteFromCacheAlone ==
    [][\A u \in Uploaders :
        (DOMAIN jobs' # DOMAIN jobs /\ up'[u] # up[u])
            => OpsIn(up[u].ops, {"get_completed_job_by_hash"}) # {}]_vars

\* C33: processing is idempotent with respect to redelivery: no step, and so no
\* step of a second run of process_message for an entry whose job is already
\* Completed, changes the stored status or results of a Completed job or the
\* results cached for its fingerprint; the job is never in a non-terminal status
\* again.
C33_RedeliveryIdempotent ==
    [][\A id \in DOMAIN jobs :
        jobs[id].status = "completed"
            => /\ jobs'[id].status = "completed"
               /\ jobs'[id].results = jobs[id].results
               /\ jobs[id].file_hash \in DOMAIN fileCache
                    => /\ jobs[id].file_hash \in DOMAIN fileCache'
                       /\ fileCache'[jobs[id].file_hash]
                            = fileCache[jobs[id].file_hash]]_vars

\* C34: an error raised inside a cleanup cycle is logged and does not halt the
\* periodic scheduler: the step in which a call of the cycle raises leaves the
\* loop at its sleep with the error logged, from where the next cycle starts, and
\* the loop ends only by a cancellation.
C34_ErrorKeepsSchedulerRunning ==
    /\ [](cl.pc = "sleep" => ENABLED CleanupOrphans)
    /\ [][(faults' > faults)
            => (cl'.pc = "sleep" /\ cl'.ran[Len(cl'.ran)] = "error")]_vars
    /\ [][(cl'.pc = "cancelled" /\ cl.pc # "cancelled")
            => (faults' = faults /\ cl'.ran[Len(cl'.ran)] = "cancelled")]_vars

\* A cycle runs after a cycle that failed.
C34_Witness ==
    /\ faults >= 1
    /\ cl.pc = "delete"

\* The jobs of fingerprint h that are or were Completed: the results column is
\* written by the Completed update and by the INSERT of a Completed job, and no
\* UPDATE clears it (COALESCE), which the second conjunct of C35 checks.
EverCompletedJobs(h) ==
    {id \in DOMAIN jobs : jobs[id].file_hash = h /\ jobs[id].results # NoResults}

\* C35: the lookup paths never diverge. In every state a fingerprint cache entry
\* with results holds exactly the results of a job of that fingerprint that is or
\* was Completed in the store, all such jobs of the fingerprint hold the same
\* results, and all uploads of one content that were answered Completed, from the
\* cache or from the store, were answered with the same results.
C35_LookupPathsAgree ==
    /\ [](\A h \in Hashes :
            CacheHasResults(h)
                => /\ EverCompletedJobs(h) # {}
                   /\ \A id \in EverCompletedJobs(h) :
                        jobs[id].results = fileCache[h])
    /\ [][\A id \in DOMAIN jobs' :
            (/\ jobs'[id].results # NoResults
             /\ (id \in DOMAIN jobs => jobs[id].results # jobs'[id].results))
                => jobs'[id].status = "completed"]_vars
    /\ [](\A i, j \in 1..Len(responses) :
            (/\ responses[i].status = "completed"
             /\ responses[j].status = "completed"
             /\ responses[i].file_hash = responses[j].file_hash)
                => responses[i].results = responses[j].results)

\* C35 witness: an upload was answered Completed from the cache or from the
\* store while the cache entry of its content holds results and the store holds
\* the scanned job and the job of the answer.
C35_Witness ==
    \E i \in 1..Len(responses) :
        /\ responses[i].status = "completed"
        /\ responses[i].deduplication
        /\ CacheHasResults(responses[i].file_hash)
        /\ Cardinality(EverCompletedJobs(responses[i].file_hash)) >= 2

\* The upload request that created job id is still running.
UploadInFlight(id) == \E u \in Uploaders : up[u].pc # "idle" /\ up[u].job_id = id

\* The entries of job id that are published and not acknowledged: not yet
\* delivered, or on the pending list.
UnackedEntriesOfJob(id) ==
    {i \in 1..Len(stream) : stream[i].job_id = id /\ i \notin Acknowledged}

\* C36: once the upload request that created it has finished, successfully or
\* with an error, every job of the store whose status is Pending or Processing
\* has a queue entry for its id that is published and not yet acknowledged.
C36_UnfinishedJobHasEntry ==
    \A id \in DOMAIN jobs :
        (jobs[id].status \in {"pending", "processing"} /\ ~UploadInFlight(id))
            => UnackedEntriesOfJob(id) # {}

\* C37: when the storage statistics cannot be read, should_accept_upload accepts
\* with the plain message, and the cleanup cycle does the orphan reclamation and
\* nothing else: the step that reads the unreadable stats ends the cycle with the
\* error result and changes no job record and no file, and the cycle has deleted
\* no job and listed no content for deletion.
C37_UnreadableStatsFailOpen ==
    /\ [](\A a \in Admissions :
            a.status = "unknown" => (a.accept /\ a.message = <<"ok">>))
    /\ [](cl.status = "unknown"
            => /\ cl.pc = "sleep"
               /\ cl.ran = <<"orphans", "stats">>
               /\ cl.deleted_jobs = {}
               /\ cl.old_hashes = {})
    /\ [][(cl.pc = "stats" /\ cl'.status = "unknown")
            => (jobs' = jobs /\ files' = files)]_vars

\* C37 witness: an upload was admitted on unreadable stats, and a cycle ended on
\* unreadable stats while the store held an expired job and its content.
C37_Witness ==
    /\ \E a \in Admissions : a.status = "unknown" /\ a.accept
    /\ cl.status = "unknown"
    /\ \E id \in ExpiredJobs : jobs[id].file_hash \in DOMAIN files

\* C38: orphan reclamation only ever removes files with the temporary prefix at
\* the storage root: the orphan pass of a cycle leaves every canonical location
\* with its content, modifies no file it keeps, and changes no job record, no
\* cache entry and nothing of the queue.
C38_OrphanPassFrame ==
    [][(cl.pc = "sleep" /\ cl' # cl)
        => /\ DOMAIN files \ DOMAIN files' \subseteq TempPaths
           /\ CanonicalPaths \subseteq DOMAIN files'
           /\ \A p \in DOMAIN files' : p \in DOMAIN files /\ files'[p] = files[p]
           /\ jobs' = jobs
           /\ statusCache' = statusCache
           /\ fileCache' = fileCache
           /\ stream' = stream
           /\ lastDelivered' = lastDelivered
           /\ pel' = pel]_vars

\* C38 witness: an orphan pass has removed a temporary file while the store held
\* a job with its status cache entry, its queue entry and its content.
C38_Witness ==
    /\ cl.pc = "stats"
    /\ cl.removed # {}
    /\ cl.removed \cap DOMAIN files = {}
    /\ \E id \in DOMAIN jobs :
           /\ jobs[id].file_hash \in DOMAIN files
           /\ id \in DOMAIN statusCache
           /\ EntriesOfJob(id) # {}

====
